---------------------------- MODULE Spec2Model ----------------------------
(***************************************************************************)
(* Vision AI Guide: the media capture adapter (useWebcam), the location    *)
(* provider (useGeolocation), the live dialogue orchestrator               *)
(* (useGeminiLive over LiveSession) and the scene analysis loop            *)
(* (CameraVisualizer), as state machines.                                  *)
(*                                                                         *)
(* Every hook runs on the single JavaScript event loop: one action is one  *)
(* run-to-completion stretch of a handler, from its start or from the      *)
(* await it was suspended at to its next await or its end.  React state    *)
(* read through a closure is the value of the render that created the      *)
(* closure; a ref is always current.                                       *)
(***************************************************************************)
EXTENDS Integers, Sequences, FiniteSets, TLC

(***************************************************************************)
(* Bounds of the model.                                                    *)
(***************************************************************************)
\* getUserMedia({video}) calls issued in one run
MaxAcquire == 3
\* applyConstraints calls issued in one run
MaxTorch == 2
\* camera frames captured for the live session in one run
MaxVideoFrames == 2
\* platform getCurrentPosition requests issued in one run
MaxGeoRequests == 2
\* callers of requestLocation (tool executor, emergency trigger, settings)
NCallers == 3

VARIABLES
    \* ---- useWebcam (src/unnamed/part_000:4-121)
    stream,          \* useState stream: 0 is null, else the MediaStream's id
    isEnabled,       \* useState isEnabled
    facingMode,      \* useState facingMode
    hasTorch,        \* useState hasTorch
    isTorchOn,       \* useState isTorchOn
    webcamError,     \* useState error of useWebcam
    liveStreams,     \* the MediaStreams whose tracks have not been stopped
    pendingEnable,   \* enableWebcam calls suspended at await getUserMedia
    acquired,        \* getUserMedia({video}) calls issued so far
    pendingTorch,    \* toggleTorch calls suspended at await applyConstraints
    torchCalls,      \* applyConstraints calls issued so far
    \* ---- useGeolocation (src/unnamed/part_000:127-172)
    location,        \* useState location: 0 is null, else the fix
    status,          \* useState status
    geoError,        \* useState error of useGeolocation (TRUE: a message)
    promiseRef,      \* useRef promiseRef: 0 is null, else the request's id
    hasGeolocation,  \* whether navigator.geolocation exists
    inflight,        \* getCurrentPosition requests not yet called back
    issued,          \* getCurrentPosition requests issued so far
    outcome,         \* request id -> what the platform called back with
    callers,         \* caller -> what its requestLocation() promise holds
    \* ---- CameraVisualizer in VisualPane (src/components/CameraVisualizer.tsx)
    mountId,         \* the mounted CameraVisualizer instance, 0 when none
    mounts,          \* instances mounted so far
    isDetectionEnabled,     \* useState isDetectionEnabled of the mounted instance
    boundingBoxes,   \* useState boundingBoxes of the mounted instance
    isAnalyzingRef,  \* the instances whose isAnalyzingRef.current is true
    emergencyTriggeredRef,  \* instance -> emergencyTriggeredRef.current
    eff,             \* the closures of the analysis effect's runs
    curEff,          \* the effect run not yet cleaned up, 0 when none
    emergencyFired,  \* the emergency types onEmergencyTrigger was invoked for
    backoffLeft,     \* observer: seconds left of the last failure's backoff
    coverageRatio,   \* useState coverageRatio of the mounted instance, in hundredths
    analysisUpdate,  \* the arguments of the last onAnalysisUpdate(result, false, error)
    \* ---- useGeminiLive (src/unnamed/part_000:191-517) over LiveSession
    isListening,     \* useState isListening
    isConnecting,    \* useState isConnecting
    isAssistantActive,            \* useState isAssistantActive
    currentInputTranscription,    \* useState currentInputTranscription
    currentOutputTranscription,   \* useState currentOutputTranscription
    messages,        \* useState messages: the message log
    liveSessionRef,  \* liveSessionRef.current: 0 is null, else the session
    audioContextRef, \* audioContextRef.current and outputContextRef.current:
                     \*   the startSession call that created the pair, 0 is null
    inputSourceRef,  \* inputSourceRef.current and processorRef.current, likewise
    playingSourcesRef,            \* playingSourcesRef.current
    nextStartTimeRef,             \* nextStartTimeRef.current
    hasAIBeenInterruptedRef,      \* hasAIBeenInterruptedRef.current
    sessions,        \* the startSession calls: position, transport, closure
    closedCtx,       \* the startSession calls whose AudioContexts are closed
    micPipeline,     \* the calls whose source -> processor chain is connected
    currentTime,     \* outputContextRef.current.currentTime
    tasks,           \* the suspended asynchronous handlers
    received,        \* the names of the function calls received, by call id
    inbound,         \* inbound envelopes delivered so far
    lastInbound,     \* the envelope delivered last
    sent,            \* the tool responses written to a transport, in order
    emergencyTriggers,            \* the call ids that called the onEmergencyTrigger prop
    speechRequests,  \* the call ids that called generateSpeech
    groundedRequests, \* the grounded generateContent requests: call id and fix
    apiKey,           \* process.env.API_KEY of the client build is set
    \* ---- App and VisualPane (src/App.tsx, src/components/EmergencyModal.tsx)
    isVisualsOpen,   \* useState isVisualsOpen: VisualPane is mounted
    streamDeps,      \* isOpen, isListening, webcam.isEnabled of the streaming effect's last run
    streamInterval,  \* useRef streamInterval: 0 is null, else the interval's id
    intervals,       \* the setInterval timers that have not been cleared
    capturing,       \* interval callbacks suspended at await captureFrame
    videoSent,       \* the realtimeInput frames written to a transport
    \* ---- UnifiedAssistant (src/components/UnifiedAssistant.tsx)
    showVisualPane,      \* prop showVisualPane, set through setShowVisualPane
    visualPaneMode,      \* prop visualPaneMode, set through setVisualPaneMode
    hasMultipleCameras,  \* prop hasMultipleCameras
    appCameraHasTorch,   \* prop appCameraHasTorch
    appTorchEnabled,     \* prop appTorchEnabled
    commandDeps,     \* the dependencies the voice command effect last ran with
    commandCalls     \* the actions the voice command effect called in this user turn

torchVars == <<pendingTorch, torchCalls>>
camVars == <<stream, isEnabled, facingMode, hasTorch, isTorchOn, webcamError,
             liveStreams, pendingEnable, acquired, torchVars>>
geoVars == <<location, status, geoError, promiseRef, hasGeolocation,
             inflight, issued, outcome, callers>>
loopVars == <<mountId, mounts, isDetectionEnabled, boundingBoxes, isAnalyzingRef,
              emergencyTriggeredRef, eff, curEff, emergencyFired, backoffLeft,
      coverageRatio, analysisUpdate>>
liveVars == <<isListening, isConnecting, isAssistantActive, currentInputTranscription,
              currentOutputTranscription, messages, liveSessionRef, audioContextRef,
              inputSourceRef, playingSourcesRef, nextStartTimeRef,
              hasAIBeenInterruptedRef, sessions, closedCtx, micPipeline, currentTime,
              tasks, received, inbound, lastInbound, sent, emergencyTriggers,
              speechRequests, groundedRequests, apiKey>>
videoVars == <<isVisualsOpen, streamDeps, streamInterval, intervals, capturing, videoSent>>
voiceVars == <<showVisualPane, visualPaneMode, hasMultipleCameras, appCameraHasTorch,
               appTorchEnabled, commandDeps, commandCalls>>
vars == <<camVars, geoVars, loopVars, liveVars, videoVars, voiceVars>>
notCam == <<geoVars, loopVars, liveVars, videoVars, voiceVars>>
notGeo == <<camVars, loopVars, liveVars, videoVars, voiceVars>>
notLoop == <<camVars, geoVars, liveVars, videoVars, voiceVars>>
notLive == <<camVars, geoVars, loopVars, videoVars, voiceVars>>
notVideo == <<camVars, geoVars, loopVars, liveVars, voiceVars>>
notVoice == <<camVars, geoVars, loopVars, videoVars>>

NULL == 0

(***************************************************************************)
(* useWebcam                                                               *)
(***************************************************************************)
FacingModes == {"user", "environment"}
ErrorNames == {"NotAllowedError", "NotFoundError", "OtherError"}

InitCam ==
    /\ stream = NULL
    /\ isEnabled = FALSE
    /\ facingMode = "user"
    /\ hasTorch = FALSE
    /\ isTorchOn = FALSE
    /\ webcamError = "none"
    /\ liveStreams = {}
    /\ pendingEnable = {}
    /\ acquired = 0
    /\ pendingTorch = {}
    /\ torchCalls = 0

\* stream.getTracks().forEach(track => track.stop()) on the closure's stream
StopTracks(s) == liveStreams \ {s}

\* stream.active: some track of the stream has not ended
StreamActive(s) == s \in liveStreams

\* enableWebcam(mode) up to its await: the early return, the clean-up of the
\* stream the closure holds, and the getUserMedia request.
EnableWebcam(mode) ==
    /\ acquired < MaxAcquire
    /\ ~(isEnabled /\ stream # NULL /\ facingMode = mode /\ StreamActive(stream))
    /\ liveStreams' = IF stream # NULL THEN StopTracks(stream) ELSE liveStreams
    /\ acquired' = acquired + 1
    /\ pendingEnable' = pendingEnable \cup {[id |-> acquired + 1, mode |-> mode]}
    /\ UNCHANGED <<stream, isEnabled, facingMode, hasTorch, isTorchOn, webcamError,
                   torchVars>>
    /\ UNCHANGED notCam

\* enableWebcam(mode) on a camera already enabled with that mode and a live
\* stream: the early return.
EnableWebcamNoop(mode) ==
    /\ isEnabled /\ stream # NULL /\ facingMode = mode /\ StreamActive(stream)
    /\ UNCHANGED camVars
    /\ UNCHANGED notCam

\* getUserMedia resolves: the continuation of enableWebcam after the await.
GetUserMediaResolve(p, torch) ==
    /\ p \in pendingEnable
    /\ pendingEnable' = pendingEnable \ {p}
    /\ liveStreams' = liveStreams \cup {p.id}
    /\ stream' = p.id
    /\ isEnabled' = TRUE
    /\ facingMode' = p.mode
    /\ webcamError' = "none"
    /\ hasTorch' = torch
    /\ isTorchOn' = FALSE
    /\ UNCHANGED <<acquired, torchVars>>
    /\ UNCHANGED notCam

\* the catch block with its last branch only
ClassifyErrorGeneric(name) == "generic"

\* the catch block of enableWebcam: the message chosen by err.name
ClassifyError(name) ==
    IF name = "NotAllowedError" THEN "denied"
    ELSE IF name = "NotFoundError" THEN "notfound"
    ELSE "generic"

\* getUserMedia rejects: the catch block of enableWebcam.
GetUserMediaReject(p, name) ==
    /\ p \in pendingEnable
    /\ pendingEnable' = pendingEnable \ {p}
    /\ isEnabled' = FALSE
    /\ stream' = NULL
    /\ webcamError' = ClassifyError(name)
    /\ UNCHANGED <<facingMode, hasTorch, isTorchOn, liveStreams, acquired, torchVars>>
    /\ UNCHANGED notCam

\* a disableWebcam that leaves the torch flags alone
DisableWebcamKeepTorch ==
    /\ liveStreams' = IF stream # NULL THEN StopTracks(stream) ELSE liveStreams
    /\ stream' = NULL
    /\ isEnabled' = FALSE
    /\ UNCHANGED <<hasTorch, isTorchOn>>
    /\ UNCHANGED <<facingMode, webcamError, pendingEnable, acquired, torchVars>>
    /\ UNCHANGED notCam

DisableWebcam ==
    /\ liveStreams' = IF stream # NULL THEN StopTracks(stream) ELSE liveStreams
    /\ stream' = NULL
    /\ isEnabled' = FALSE
    /\ isTorchOn' = FALSE
    /\ hasTorch' = FALSE
    /\ UNCHANGED <<facingMode, webcamError, pendingEnable, acquired, torchVars>>
    /\ UNCHANGED notCam

OtherMode(m) == IF m = "user" THEN "environment" ELSE "user"

\* toggleCamera: enableWebcam(the other mode); the early return cannot apply.
ToggleCamera == EnableWebcam(OtherMode(facingMode))

\* toggleTorch without a stream or without the torch capability: the early return
ToggleTorchNoop ==
    /\ stream = NULL \/ ~hasTorch
    /\ UNCHANGED camVars
    /\ UNCHANGED notCam

\* toggleTorch up to await track.applyConstraints({advanced: [{torch:
\* !isTorchOn}]}): the call keeps the track of the render's stream and the
\* value it asked for.
ToggleTorch ==
    /\ stream # NULL /\ hasTorch
    /\ torchCalls < MaxTorch
    /\ torchCalls' = torchCalls + 1
    /\ pendingTorch' = pendingTorch \cup
           {[id |-> torchCalls + 1, track |-> stream, torch |-> ~isTorchOn]}
    /\ UNCHANGED <<stream, isEnabled, facingMode, hasTorch, isTorchOn, webcamError,
                   liveStreams, pendingEnable, acquired>>
    /\ UNCHANGED notCam

\* applyConstraints resolves: setIsTorchOn(!isTorchOn) with the isTorchOn of
\* the render the call came from.
ApplyConstraintsResolve(t) ==
    /\ t \in pendingTorch
    /\ pendingTorch' = pendingTorch \ {t}
    /\ isTorchOn' = t.torch
    /\ UNCHANGED <<stream, isEnabled, facingMode, hasTorch, webcamError, liveStreams,
                   pendingEnable, acquired, torchCalls>>
    /\ UNCHANGED notCam

\* applyConstraints rejects: the catch block of toggleTorch.
ApplyConstraintsReject(t) ==
    /\ t \in pendingTorch
    /\ pendingTorch' = pendingTorch \ {t}
    /\ hasTorch' = FALSE
    /\ isTorchOn' = FALSE
    /\ UNCHANGED <<stream, isEnabled, facingMode, webcamError, liveStreams,
                   pendingEnable, acquired, torchCalls>>
    /\ UNCHANGED notCam

NextCam ==
    \/ ToggleTorchNoop
    \/ ToggleTorch
    \/ \E t \in pendingTorch : ApplyConstraintsResolve(t)
    \/ \E t \in pendingTorch : ApplyConstraintsReject(t)
    \/ \E mode \in FacingModes : EnableWebcam(mode)
    \/ \E mode \in FacingModes : EnableWebcamNoop(mode)
    \/ \E p \in pendingEnable, torch \in BOOLEAN : GetUserMediaResolve(p, torch)
    \/ \E p \in pendingEnable, name \in ErrorNames : GetUserMediaReject(p, name)
    \/ DisableWebcam
    \/ ToggleCamera

(***************************************************************************)
(* useGeolocation                                                          *)
(***************************************************************************)
Callers == 1..NCallers
Fixes == {1, 2}
Idle == [st |-> "idle", req |-> 0, val |-> 0]

InitGeo ==
    /\ location = NULL
    /\ status = "idle"
    /\ geoError = FALSE
    /\ promiseRef = NULL
    /\ hasGeolocation \in BOOLEAN
    /\ inflight = {}
    /\ issued = 0
    /\ outcome = <<>>
    /\ callers = [c \in Callers |-> Idle]

\* requestLocation() without the promiseRef test: a platform request per call
RequestLocationNoCoalesce(c) ==
    /\ callers[c].st # "waiting"
    /\ promiseRef # NULL
    /\ issued < MaxGeoRequests
    /\ issued' = issued + 1
    /\ inflight' = inflight \cup {issued + 1}
    /\ promiseRef' = issued + 1
    /\ outcome' = Append(outcome, "pending")
    /\ callers' = [callers EXCEPT ![c] = [st |-> "waiting", req |-> issued + 1, val |-> 0]]
    /\ UNCHANGED <<location, status, geoError, hasGeolocation>>
    /\ UNCHANGED notGeo

\* requestLocation() while promiseRef.current is set: the stored promise is returned.
RequestLocationJoin(c) ==
    /\ callers[c].st # "waiting"
    /\ promiseRef # NULL
    /\ callers' = [callers EXCEPT ![c] = [st |-> "waiting", req |-> promiseRef, val |-> 0]]
    /\ UNCHANGED <<location, status, geoError, promiseRef, hasGeolocation,
                   inflight, issued, outcome>>
    /\ UNCHANGED notGeo

\* requestLocation() on a platform without navigator.geolocation.
RequestLocationUnsupported(c) ==
    /\ callers[c].st # "waiting"
    /\ promiseRef = NULL
    /\ ~hasGeolocation
    /\ status' = "unsupported"
    /\ geoError' = TRUE
    /\ callers' = [callers EXCEPT ![c] = [st |-> "resolved", req |-> 0, val |-> NULL]]
    /\ UNCHANGED <<location, promiseRef, hasGeolocation, inflight, issued, outcome>>
    /\ UNCHANGED notGeo

\* requestLocation() without its setStatus('pending')
RequestLocationIssueNoPending(c) ==
    /\ callers[c].st # "waiting"
    /\ promiseRef = NULL
    /\ hasGeolocation
    /\ issued < MaxGeoRequests
    /\ geoError' = FALSE
    /\ issued' = issued + 1
    /\ inflight' = inflight \cup {issued + 1}
    /\ promiseRef' = issued + 1
    /\ outcome' = Append(outcome, "pending")
    /\ callers' = [callers EXCEPT ![c] = [st |-> "waiting", req |-> issued + 1, val |-> 0]]
    /\ UNCHANGED <<location, status, hasGeolocation>>
    /\ UNCHANGED notGeo

\* requestLocation() with no request in flight: getCurrentPosition is called and
\* the promise stored, with no await in between.
RequestLocationIssue(c) ==
    /\ callers[c].st # "waiting"
    /\ promiseRef = NULL
    /\ hasGeolocation
    /\ issued < MaxGeoRequests
    /\ status' = "pending"
    /\ geoError' = FALSE
    /\ issued' = issued + 1
    /\ inflight' = inflight \cup {issued + 1}
    /\ promiseRef' = issued + 1
    /\ outcome' = Append(outcome, "pending")
    /\ callers' = [callers EXCEPT ![c] = [st |-> "waiting", req |-> issued + 1, val |-> 0]]
    /\ UNCHANGED <<location, hasGeolocation>>
    /\ UNCHANGED notGeo

\* What the promise of request r delivers to everything chained on it: the
\* stored promise and its .finally() derivative resolve with the same value.
Settled(cs, r, v) ==
    [c \in Callers |-> IF cs[c].st = "waiting" /\ cs[c].req = r
                        THEN [st |-> "resolved", req |-> r, val |-> v]
                        ELSE cs[c]]

\* promise.finally(() => { promiseRef.current = null })
FinallyClear(r) == IF promiseRef = r THEN NULL ELSE promiseRef

\* the success callback of getCurrentPosition, then the promise's reactions
PositionSuccess(r, fix) ==
    /\ r \in inflight
    /\ inflight' = inflight \ {r}
    /\ location' = fix
    /\ status' = "granted"
    /\ outcome' = [outcome EXCEPT ![r] = fix]
    /\ callers' = Settled(callers, r, fix)
    /\ promiseRef' = FinallyClear(r)
    /\ UNCHANGED <<geoError, hasGeolocation, issued>>
    /\ UNCHANGED notGeo

\* the error callback with reject(err) in place of resolve(null)
PositionErrorRejects(r) ==
    /\ r \in inflight
    /\ inflight' = inflight \ {r}
    /\ status' = "denied"
    /\ geoError' = TRUE
    /\ outcome' = [outcome EXCEPT ![r] = NULL]
    /\ callers' = [c \in Callers |->
                     IF callers[c].st = "waiting" /\ callers[c].req = r
                     THEN [st |-> "rejected", req |-> r, val |-> NULL]
                     ELSE callers[c]]
    /\ promiseRef' = FinallyClear(r)
    /\ UNCHANGED <<location, hasGeolocation, issued>>
    /\ UNCHANGED notGeo

\* the error callback of getCurrentPosition (denial, failure or the 10 s timeout)
PositionError(r) ==
    /\ r \in inflight
    /\ inflight' = inflight \ {r}
    /\ status' = "denied"
    /\ geoError' = TRUE
    /\ outcome' = [outcome EXCEPT ![r] = NULL]
    /\ callers' = Settled(callers, r, NULL)
    /\ promiseRef' = FinallyClear(r)
    /\ UNCHANGED <<location, hasGeolocation, issued>>
    /\ UNCHANGED notGeo

NextGeo ==
    \/ \E c \in Callers : RequestLocationJoin(c)
    \/ \E c \in Callers : RequestLocationUnsupported(c)
    \/ \E c \in Callers : RequestLocationIssue(c)
    \/ \E r \in inflight, fix \in Fixes : PositionSuccess(r, fix)
    \/ \E r \in inflight : PositionError(r)

(***************************************************************************)
(* The scene analysis loop of CameraVisualizer, mounted by VisualPane      *)
(* while webcam.isEnabled.  Times are in seconds.                          *)
(***************************************************************************)
\* effect runs (closures of runAnalysis) created in one run
MaxEffects == 2
\* setTimeout(runAnalysis, 60000 / 10000 / 5000) after a failure
QuotaDelay == 60
TimeoutDelay == 10
OtherDelay == 5
\* setTimeout(runAnalysis, 5000) when navigator.onLine is false
OfflineDelay == 5
\* setTimeout(runAnalysis, 2000) after a success, 1000 after a null frame
SuccessDelay == 2
NoFrameDelay == 1

NoTimer == -1
MARKER == "CRITICAL EMERGENCY:"
\* sceneDescription, as words
SceneDescriptions ==
    { <<"a", "room">>,
      <<MARKER, "Fire", ".", "smoke">>,
      <<MARKER, "Flood", ".">>,
      <<"street", MARKER, "Fire">> }
FailureKinds == {"quota", "timeout", "other"}

\* detected objects in one result
MaxObjects == 2
\* coverageRatio > 0.6 draws the alert border; ratios are in hundredths
ProximityThreshold == 60
\* BoundingBox: normalized (0-1) coordinates, here in tenths
Box(xMin, yMin, xMax, yMax) == [xMin |-> xMin, yMin |-> yMin, xMax |-> xMax, yMax |-> yMax]
Boxes == { Box(0, 0, 10, 7), Box(2, 0, 8, 10) }
\* result.detectedObjects, by their boxes
DetectedObjects == UNION {[1..n -> Boxes] : n \in 0..MaxObjects}

\* const area = (obj.box.xMax - obj.box.xMin) * (obj.box.yMax - obj.box.yMin)
Area(b) == (b.xMax - b.xMin) * (b.yMax - b.yMin)

\* onAnalysisUpdate(result, false, error): the result as boundingBoxes holds
\* it, the error by its kind ("none" for null)
Update(result, error) == [result |-> result, error |-> error]

\* sceneDescription.includes("CRITICAL EMERGENCY:")
IncludesMarker(d) == \E i \in 1..Len(d) : d[i] = MARKER

\* sceneDescription.split("CRITICAL EMERGENCY:")[1].split(".")[0].trim()
EmergencyType(d) ==
    LET i == CHOOSE k \in 1..Len(d) : d[k] = MARKER /\ \A j \in 1..(k - 1) : d[j] # MARKER
        after == SubSeq(d, i + 1, Len(d))
        stops == {k \in 1..Len(after) : after[k] \in {".", MARKER}}
        n == IF stops = {} THEN Len(after)
             ELSE (CHOOSE k \in stops : \A j \in stops : k <= j) - 1
    IN SubSeq(after, 1, n)

\* The onEmergencyTrigger prop CameraVisualizer receives: VisualPane passes
\* webcam, onAnalysisUpdate, onLowLightChange and speakAndLog only.
OnEmergencyTriggerProp == FALSE

\* const delay = isQuotaError ? 60000 : isTimeout ? 10000 : 5000
BackoffDelay(kind) ==
    IF kind = "quota" THEN QuotaDelay
    ELSE IF kind = "timeout" THEN TimeoutDelay
    ELSE OtherDelay

InitLoop ==
    /\ mountId = 0
    /\ mounts = 0
    /\ isDetectionEnabled = FALSE
    /\ boundingBoxes = <<>>
    /\ isAnalyzingRef = {}
    /\ emergencyTriggeredRef = <<>>
    /\ eff = <<>>
    /\ curEff = 0
    /\ emergencyFired = <<>>
    /\ backoffLeft = 0
    /\ coverageRatio = 0
    /\ analysisUpdate = Update(<<>>, "none")

Closure(inst, timer, pc) == [inst |-> inst, timeoutId |-> timer, pc |-> pc]

\* runAnalysis without the navigator.onLine test
RunAnalysisOnlineOnly(es, e, online) ==
    IF es[e].inst \in isAnalyzingRef
    THEN es
    ELSE [es EXCEPT ![e].pc = "capture"]

\* runAnalysis of closure e up to its first await or return, given the
\* closures es and navigator.onLine.  The closure's webcam.isEnabled and
\* isDetectionEnabled are those of the render that ran the effect: both true.
RunAnalysis(es, e, online) ==
    IF ~online
    THEN [es EXCEPT ![e].timeoutId = OfflineDelay]
    ELSE IF es[e].inst \in isAnalyzingRef
    THEN es
    ELSE [es EXCEPT ![e].pc = "capture"]

\* isAnalyzingRef after that stretch of runAnalysis
RunAnalysisRef(es, e, online) ==
    IF online /\ es[e].inst \notin isAnalyzingRef
    THEN isAnalyzingRef \cup {es[e].inst}
    ELSE isAnalyzingRef

\* what the parent was last told after that stretch of runAnalysis: offline,
\* onAnalysisUpdate(null, false, "No internet connection.")
RunAnalysisUpdate(online) ==
    IF ~online THEN Update(<<>>, "offline") ELSE analysisUpdate

\* the effect's cleanup: clearTimeout(timeoutId) of the run being replaced
Cleanup(es) ==
    IF curEff = 0 THEN es ELSE [es EXCEPT ![curEff].timeoutId = NoTimer]

\* The effect's body of a new run with camera and detection on: runAnalysis()
EffectRun(inst, online) ==
    LET es == Append(Cleanup(eff), Closure(inst, NoTimer, "idle"))
        e == Len(es)
    IN /\ eff' = RunAnalysis(es, e, online)
       /\ isAnalyzingRef' = RunAnalysisRef(es, e, online)
       /\ analysisUpdate' = RunAnalysisUpdate(online)
       /\ curEff' = e

\* webcam.isEnabled becomes true: VisualPane mounts a CameraVisualizer, whose
\* isDetectionEnabled starts true, and the effect runs.
Mount(online) ==
    /\ mountId = 0
    /\ Len(eff) < MaxEffects
    /\ mounts' = mounts + 1
    /\ mountId' = mounts + 1
    /\ isDetectionEnabled' = TRUE
    /\ boundingBoxes' = <<>>
    /\ coverageRatio' = 0
    /\ emergencyTriggeredRef' = Append(emergencyTriggeredRef, <<"null">>)
    /\ EffectRun(mounts + 1, online)
    /\ backoffLeft' = 0
    /\ UNCHANGED emergencyFired
    /\ UNCHANGED notLoop

\* webcam.isEnabled becomes false: VisualPane unmounts the CameraVisualizer;
\* the effect's cleanup runs and the instance's state is gone.
Unmount ==
    /\ mountId # 0
    /\ mountId' = 0
    /\ eff' = Cleanup(eff)
    /\ curEff' = 0
    /\ isDetectionEnabled' = FALSE
    /\ boundingBoxes' = <<>>
    /\ coverageRatio' = 0
    /\ backoffLeft' = 0
    /\ UNCHANGED <<mounts, isAnalyzingRef, emergencyTriggeredRef, emergencyFired,
                   analysisUpdate>>
    /\ UNCHANGED notLoop

\* VisualPane re-renders (its parent App does on every state change of the
\* hooks): the inline onAnalysisUpdate={() => {}} is a new function, a
\* dependency of the effect changed, so the effect is cleaned up and run again.
ParentRerender(online) ==
    /\ mountId # 0
    /\ isDetectionEnabled
    /\ Len(eff) < MaxEffects
    /\ EffectRun(mountId, online)
    /\ UNCHANGED <<mountId, mounts, isDetectionEnabled, boundingBoxes,
                   emergencyTriggeredRef, emergencyFired, backoffLeft, coverageRatio>>
    /\ UNCHANGED notLoop

\* The detection toggle is switched on: the effect runs again.
DetectionOn(online) ==
    /\ mountId # 0
    /\ ~isDetectionEnabled
    /\ Len(eff) < MaxEffects
    /\ isDetectionEnabled' = TRUE
    /\ EffectRun(mountId, online)
    /\ backoffLeft' = 0
    /\ UNCHANGED <<mountId, mounts, boundingBoxes, emergencyTriggeredRef, emergencyFired,
                   coverageRatio>>
    /\ UNCHANGED notLoop

\* The detection toggle is switched off: cleanup, then the effect's else branch.
DetectionOff ==
    /\ mountId # 0
    /\ isDetectionEnabled
    /\ isDetectionEnabled' = FALSE
    /\ eff' = Cleanup(eff)
    /\ curEff' = 0
    /\ boundingBoxes' = <<>>
    /\ coverageRatio' = 0
    /\ analysisUpdate' = Update(<<>>, "none")
    /\ backoffLeft' = 0
    /\ UNCHANGED <<mountId, mounts, isAnalyzingRef, emergencyTriggeredRef, emergencyFired>>
    /\ UNCHANGED notLoop

\* A timer set by closure e expires: runAnalysis runs again in that closure.
TimerFire(e, online) ==
    /\ e \in 1..Len(eff)
    /\ eff[e].timeoutId = 0
    /\ LET es == [eff EXCEPT ![e].timeoutId = NoTimer]
       IN /\ eff' = RunAnalysis(es, e, online)
          /\ isAnalyzingRef' = RunAnalysisRef(es, e, online)
          /\ analysisUpdate' = RunAnalysisUpdate(online)
    /\ UNCHANGED <<mountId, mounts, isDetectionEnabled, boundingBoxes,
                   emergencyTriggeredRef, curEff, emergencyFired, backoffLeft,
                   coverageRatio>>
    /\ UNCHANGED notLoop

\* captureFrame() of closure e resolves: with a frame the detection request is
\* sent; with null the cycle reschedules after 1 s (finally: ref cleared).  An
\* unmounted instance's videoRef is null, so its captureFrame returns null.
CaptureDone(e, frame) ==
    /\ e \in 1..Len(eff)
    /\ eff[e].pc = "capture"
    /\ frame => eff[e].inst = mountId
    /\ IF frame
       THEN /\ eff' = [eff EXCEPT ![e].pc = "detect"]
            /\ UNCHANGED isAnalyzingRef
       ELSE /\ eff' = [eff EXCEPT ![e].pc = "idle", ![e].timeoutId = NoFrameDelay]
            /\ isAnalyzingRef' = isAnalyzingRef \ {eff[e].inst}
    /\ UNCHANGED <<mountId, mounts, isDetectionEnabled, boundingBoxes,
                   emergencyTriggeredRef, curEff, emergencyFired, backoffLeft,
                   coverageRatio, analysisUpdate>>
    /\ UNCHANGED notLoop

\* The emergency check of a successful result, for instance i: the new value of
\* emergencyTriggeredRef.current and the types onEmergencyTrigger is invoked for.
EmergencyCheck(i, d) ==
    IF IncludesMarker(d) /\ OnEmergencyTriggerProp
    THEN IF emergencyTriggeredRef[i] # EmergencyType(d)
         THEN [ref |-> EmergencyType(d), fired |-> <<EmergencyType(d)>>]
         ELSE [ref |-> emergencyTriggeredRef[i], fired |-> <<>>]
    ELSE [ref |-> <<"null">>, fired |-> <<>>]

\* a fold that keeps the area of the last object instead of the largest
LastArea(objs, maxArea) ==
    IF objs = <<>> THEN maxArea ELSE Area(objs[Len(objs)])

RECURSIVE MaxArea(_, _)
\* The largest-area fold over result.detectedObjects: maxArea starts at 0 and
\* is replaced by every area greater than it.
MaxArea(objs, maxArea) ==
    IF objs = <<>>
    THEN maxArea
    ELSE MaxArea(Tail(objs),
                 IF Area(Head(objs)) > maxArea THEN Area(Head(objs)) ELSE maxArea)

\* The value given to setCoverageRatio for a result with these detectedObjects
Coverage(objs) ==
    IF Len(objs) > 0 THEN MaxArea(objs, 0) ELSE 0

\* The alert border is drawn when coverageRatio > 0.6
ProximityAlert == coverageRatio > ProximityThreshold

\* generateObjectDescription resolves for closure e with scene description d
\* and detected objects objs: the result replaces boundingBoxes (a state update
\* of an unmounted instance is dropped) and is reported to the parent, the
\* coverage ratio is recomputed, the emergency check runs, the next cycle is
\* scheduled 2 s later.
DetectSuccess(e, d, objs) ==
    /\ e \in 1..Len(eff)
    /\ eff[e].pc = "detect"
    /\ LET i == eff[e].inst
           chk == EmergencyCheck(i, d)
       IN /\ boundingBoxes' = IF i = mountId THEN <<d>> ELSE boundingBoxes
          /\ coverageRatio' = IF i = mountId THEN Coverage(objs) ELSE coverageRatio
          /\ analysisUpdate' = Update(<<d>>, "none")
          /\ emergencyTriggeredRef' = [emergencyTriggeredRef EXCEPT ![i] = chk.ref]
          /\ emergencyFired' = emergencyFired \o chk.fired
          /\ eff' = [eff EXCEPT ![e].pc = "idle", ![e].timeoutId = SuccessDelay]
          /\ isAnalyzingRef' = isAnalyzingRef \ {i}
    /\ UNCHANGED <<mountId, mounts, isDetectionEnabled, curEff, backoffLeft>>
    /\ UNCHANGED notLoop

\* the catch block without its window.setTimeout(runAnalysis, delay)
DetectFailureNoRetry(e, kind) ==
    /\ e \in 1..Len(eff)
    /\ eff[e].pc = "detect"
    /\ LET i == eff[e].inst
       IN /\ boundingBoxes' = IF kind = "quota" /\ i = mountId THEN <<>> ELSE boundingBoxes
          /\ eff' = [eff EXCEPT ![e].pc = "idle"]
          /\ isAnalyzingRef' = isAnalyzingRef \ {i}
          /\ analysisUpdate' = Update(<<>>, kind)
    /\ UNCHANGED <<mountId, mounts, isDetectionEnabled, emergencyTriggeredRef,
                   curEff, emergencyFired, backoffLeft, coverageRatio>>
    /\ UNCHANGED notLoop

\* generateObjectDescription rejects for closure e: the catch block.
DetectFailure(e, kind) ==
    /\ e \in 1..Len(eff)
    /\ eff[e].pc = "detect"
    /\ LET i == eff[e].inst
       IN /\ boundingBoxes' = IF kind = "quota" /\ i = mountId THEN <<>> ELSE boundingBoxes
          /\ eff' = [eff EXCEPT ![e].pc = "idle", ![e].timeoutId = BackoffDelay(kind)]
          /\ isAnalyzingRef' = isAnalyzingRef \ {i}
          /\ backoffLeft' = IF i = mountId /\ isDetectionEnabled
                            THEN BackoffDelay(kind) ELSE backoffLeft
          /\ analysisUpdate' = Update(<<>>, kind)
    /\ UNCHANGED <<mountId, mounts, isDetectionEnabled, emergencyTriggeredRef,
                   curEff, emergencyFired, coverageRatio>>
    /\ UNCHANGED notLoop

\* The running timers (and the observer's backoff), in seconds left
Running == {eff[e].timeoutId : e \in 1..Len(eff)} \cup {backoffLeft}
Positive == {n \in Running : n > 0}
Elapse(n, d) == IF n > 0 THEN n - d ELSE n

\* Time passes, up to the moment the next running timer expires.  A timer that
\* has run down fires at once or late: other steps may come first.
Tick ==
    /\ Positive # {}
    /\ LET d == CHOOSE n \in Positive : \A m \in Positive : n <= m
       IN /\ eff' = [e \in 1..Len(eff) |-> [eff[e] EXCEPT !.timeoutId = Elapse(@, d)]]
          /\ backoffLeft' = Elapse(backoffLeft, d)
    /\ UNCHANGED <<mountId, mounts, isDetectionEnabled, boundingBoxes, isAnalyzingRef,
                   emergencyTriggeredRef, curEff, emergencyFired, coverageRatio,
                   analysisUpdate>>
    /\ UNCHANGED notLoop

NextLoop ==
    \/ \E online \in BOOLEAN : Mount(online)
    \/ Unmount
    \/ \E online \in BOOLEAN : ParentRerender(online)
    \/ \E online \in BOOLEAN : DetectionOn(online)
    \/ DetectionOff
    \/ \E e \in 1..Len(eff), online \in BOOLEAN : TimerFire(e, online)
    \/ \E e \in 1..Len(eff), frame \in BOOLEAN : CaptureDone(e, frame)
    \/ \E e \in 1..Len(eff), d \in SceneDescriptions, objs \in DetectedObjects : DetectSuccess(e, d, objs)
    \/ \E e \in 1..Len(eff), kind \in FailureKinds : DetectFailure(e, kind)
    \/ Tick

(***************************************************************************)
(* useGeminiLive: session lifecycle                                        *)
(***************************************************************************)
\* startSession calls in one run
MaxSessions == 2
\* inbound envelopes delivered in one run
MaxInbound == 3
\* the audio clock's range
MaxClock == 3

\* A serverContent envelope: which parts it carries; audio is the duration of
\* the inline audio payload, 0 when there is none.
ServerContent(inT, outT, interrupted, turnComplete, audio) ==
    [inputTranscription |-> inT, outputTranscription |-> outT,
     interrupted |-> interrupted, turnComplete |-> turnComplete, audio |-> audio,
     functionCalls |-> <<>>]
\* A toolCall envelope: the names of its function calls
ToolCallEnvelope(names) ==
    [inputTranscription |-> FALSE, outputTranscription |-> FALSE,
     interrupted |-> FALSE, turnComplete |-> FALSE, audio |-> 0,
     functionCalls |-> names]
NoEnvelope == ServerContent(FALSE, FALSE, FALSE, FALSE, 0)

InitLive ==
    /\ isListening = FALSE
    /\ isConnecting = FALSE
    /\ isAssistantActive = FALSE
    /\ currentInputTranscription = <<>>
    /\ currentOutputTranscription = <<>>
    /\ messages = <<>>
    /\ liveSessionRef = NULL
    /\ audioContextRef = NULL
    /\ inputSourceRef = NULL
    /\ playingSourcesRef = {}
    /\ nextStartTimeRef = 0
    /\ hasAIBeenInterruptedRef = FALSE
    /\ sessions = <<>>
    /\ closedCtx = {}
    /\ micPipeline = {}
    /\ currentTime = 0
    /\ tasks = {}
    /\ received = <<>>
    /\ inbound = 0
    /\ lastInbound = NoEnvelope
    /\ sent = <<>>
    /\ emergencyTriggers = <<>>
    /\ speechRequests = <<>>
    /\ groundedRequests = <<>>
    /\ apiKey \in BOOLEAN

\* A continuation queued as a microtask (the await of an async function that
\* has already returned) runs before any event: no handler of an event starts
\* while one is pending.  decodeAudioData of geminiService builds the buffer
\* synchronously, so only the audio clock can move before the continuation.
\* "nearby" and "locate" are the points at which executeNearby and its call of
\* requestLocation start, in the same run of microtasks as what precedes them.
MicroPcs == {"decode", "nearby", "locate"}
MicrotaskPending == \E k \in tasks : k.pc \in MicroPcs

\* an addMessage that puts the entry in front of the log
AddMessageFront(log, type, text) == <<[type |-> type, text |-> text]>> \o log

\* addMessage(msg): setMessages(prev => [...prev, msg])
AddMessage(log, type, text) == Append(log, [type |-> type, text |-> text])

\* startSession up to await getUserMedia({audio}): the two AudioContexts
\* replace the refs' earlier ones.  The handleMessage given to
\* connectLiveSession later is the one of the render this startSession comes
\* from: it holds that render's currentInputTranscription and
\* currentOutputTranscription.
StartSession ==
    /\ ~MicrotaskPending
    /\ Len(sessions) < MaxSessions
    /\ isConnecting' = TRUE
    /\ sessions' = Append(sessions,
           [pc |-> "mic", ws |-> "NONE", stopped |-> FALSE,
            capIn |-> currentInputTranscription,
            capOut |-> currentOutputTranscription,
            capLocation |-> location, capStatus |-> status])
    /\ audioContextRef' = Len(sessions) + 1
    /\ currentTime' = 0
    /\ UNCHANGED <<isListening, isAssistantActive, currentInputTranscription,
                   currentOutputTranscription, messages, liveSessionRef, inputSourceRef,
                   playingSourcesRef, nextStartTimeRef, hasAIBeenInterruptedRef,
                   closedCtx, micPipeline, tasks, received, inbound, lastInbound, sent,
                   emergencyTriggers, speechRequests, groundedRequests, apiKey>>
    /\ UNCHANGED notLive

\* The catch block of startSession
ConnectionFailed(a) ==
    /\ sessions' = [sessions EXCEPT ![a].pc = "failed",
                                    ![a].ws = IF @ = "NONE" THEN "NONE" ELSE "CLOSED"]
    /\ messages' = AddMessage(messages, "ai", <<"Connection failed. Check permissions.">>)

\* getUserMedia({audio}) resolves: the source and processor nodes are created
\* and connectLiveSession opens the WebSocket.  createMediaStreamSource on a
\* context closed in the meantime either works or throws, by implementation.
MicGranted(a, throws) ==
    /\ ~MicrotaskPending
    /\ a \in 1..Len(sessions)
    /\ sessions[a].pc = "mic"
    /\ throws => a \in closedCtx
    /\ IF throws
       THEN /\ ConnectionFailed(a)
            /\ isConnecting' = FALSE
            /\ UNCHANGED inputSourceRef
       ELSE /\ sessions' = [sessions EXCEPT ![a].pc = "connect", ![a].ws = "CONNECTING"]
            /\ inputSourceRef' = a
            /\ UNCHANGED <<messages, isConnecting>>
    /\ UNCHANGED <<isListening, isAssistantActive, currentInputTranscription,
                   currentOutputTranscription, liveSessionRef, audioContextRef,
                   playingSourcesRef, nextStartTimeRef, hasAIBeenInterruptedRef,
                   closedCtx, micPipeline, currentTime, tasks, received, inbound, lastInbound, sent,
                   emergencyTriggers, speechRequests, groundedRequests, apiKey>>
    /\ UNCHANGED notLive

\* getUserMedia({audio}) rejects: the catch block
MicDenied(a) ==
    /\ ~MicrotaskPending
    /\ a \in 1..Len(sessions)
    /\ sessions[a].pc = "mic"
    /\ ConnectionFailed(a)
    /\ isConnecting' = FALSE
    /\ UNCHANGED <<isListening, isAssistantActive, currentInputTranscription,
                   currentOutputTranscription, liveSessionRef, audioContextRef,
                   inputSourceRef, playingSourcesRef, nextStartTimeRef,
                   hasAIBeenInterruptedRef, closedCtx, micPipeline, currentTime, tasks,
                   received, inbound, lastInbound, sent, emergencyTriggers, speechRequests, groundedRequests, apiKey>>
    /\ UNCHANGED notLive

\* The WebSocket opens: ws.onopen runs callbacks.onOpen, the 'open' listener
\* resolves connectLiveSession, and startSession's continuation installs the
\* session, sets onaudioprocess and connects source -> processor -> destination.
WsOpen(a) ==
    /\ ~MicrotaskPending
    /\ a \in 1..Len(sessions)
    /\ sessions[a].ws = "CONNECTING"
    /\ sessions' = [sessions EXCEPT ![a].pc = "done", ![a].ws = "OPEN"]
    /\ isConnecting' = FALSE
    /\ isListening' = TRUE
    /\ isAssistantActive' = TRUE
    /\ liveSessionRef' = a
    /\ micPipeline' = micPipeline \cup {a}
    /\ UNCHANGED <<currentInputTranscription, currentOutputTranscription, messages,
                   audioContextRef, inputSourceRef, playingSourcesRef, nextStartTimeRef,
                   hasAIBeenInterruptedRef, closedCtx, currentTime, tasks, received,
                   inbound, lastInbound, sent, emergencyTriggers, speechRequests, groundedRequests, apiKey>>
    /\ UNCHANGED notLive

\* The WebSocket fails: ws.onerror runs callbacks.onError; while connecting the
\* 'error' listener rejects connectLiveSession and the catch block runs; the
\* close event follows and runs callbacks.onClose.
WsError(a) ==
    /\ ~MicrotaskPending
    /\ a \in 1..Len(sessions)
    /\ sessions[a].ws \in {"CONNECTING", "OPEN"}
    /\ isConnecting' = FALSE
    /\ isListening' = FALSE
    /\ IF sessions[a].ws = "CONNECTING"
       THEN ConnectionFailed(a)
       ELSE /\ sessions' = [sessions EXCEPT ![a].ws = "CLOSED"]
            /\ UNCHANGED messages
    /\ UNCHANGED <<isAssistantActive, currentInputTranscription,
                   currentOutputTranscription, liveSessionRef, audioContextRef,
                   inputSourceRef, playingSourcesRef, nextStartTimeRef,
                   hasAIBeenInterruptedRef, closedCtx, micPipeline, currentTime, tasks,
                   received, inbound, lastInbound, sent, emergencyTriggers, speechRequests, groundedRequests, apiKey>>
    /\ UNCHANGED notLive

\* The WebSocket is closed by the peer: ws.onclose runs callbacks.onClose.
WsClose(a) ==
    /\ ~MicrotaskPending
    /\ a \in 1..Len(sessions)
    /\ sessions[a].ws = "OPEN"
    /\ sessions' = [sessions EXCEPT ![a].ws = "CLOSED"]
    /\ isListening' = FALSE
    /\ UNCHANGED <<isConnecting, isAssistantActive, currentInputTranscription,
                   currentOutputTranscription, messages, liveSessionRef, audioContextRef,
                   inputSourceRef, playingSourcesRef, nextStartTimeRef,
                   hasAIBeenInterruptedRef, closedCtx, micPipeline, currentTime, tasks,
                   received, inbound, lastInbound, sent, emergencyTriggers, speechRequests, groundedRequests, apiKey>>
    /\ UNCHANGED notLive

\* liveSessionRef.current.close(); the close event's onClose only repeats
\* setIsListening(false).  The record of an attempt that is still awaiting the
\* microphone or the transport notes that stopSession ran meanwhile (history
\* only: stopSession itself does nothing to such an attempt).
CloseTransport(ss, s) ==
    [a \in 1..Len(ss) |->
        [ss[a] EXCEPT !.ws = IF a = s /\ @ = "OPEN" THEN "CLOSED" ELSE @,
                      !.stopped = @ \/ ss[a].pc \in {"mic", "connect"}]]

\* audioContextRef.current.close() and outputContextRef.current.close()
CloseContexts(c) == IF c # NULL THEN closedCtx \cup {c} ELSE closedCtx

\* close() of an AudioContext that is closed already returns a promise rejected
\* with InvalidStateError; stopSession attaches no handler to it.
CloseRejects(c) == c # NULL /\ c \in closedCtx

\* inputSourceRef.current.disconnect() and processorRef.current.disconnect()
Disconnect(c) == IF c # NULL THEN micPipeline \ {c} ELSE micPipeline

StopSession ==
    /\ ~MicrotaskPending
    /\ isListening' = FALSE
    /\ isAssistantActive' = FALSE
    /\ sessions' = CloseTransport(sessions, liveSessionRef)
    /\ micPipeline' = Disconnect(inputSourceRef)
    /\ closedCtx' = CloseContexts(audioContextRef)
    /\ liveSessionRef' = NULL
    /\ UNCHANGED <<isConnecting, currentInputTranscription, currentOutputTranscription,
                   messages, audioContextRef, inputSourceRef, playingSourcesRef,
                   nextStartTimeRef, hasAIBeenInterruptedRef, currentTime, tasks,
                   received, inbound, lastInbound, sent, emergencyTriggers, speechRequests, groundedRequests, apiKey>>
    /\ UNCHANGED notLive

(***************************************************************************)
(* useGeminiLive: inbound envelopes, playback scheduling, tool dispatch    *)
(***************************************************************************)
flagVars == <<isListening, isConnecting, isAssistantActive>>
sessVars == <<liveSessionRef, audioContextRef, inputSourceRef, sessions, closedCtx,
              micPipeline>>
textVars == <<currentInputTranscription, currentOutputTranscription>>
audioVars == <<playingSourcesRef, nextStartTimeRef, hasAIBeenInterruptedRef>>
toolObs == <<received, sent, emergencyTriggers, speechRequests, groundedRequests, apiKey>>

\* durations of a decoded audio buffer
Durations == {1, 2}
Bools == {FALSE, TRUE}
ServerContents ==
    { ServerContent(i, o, x, c, a) : i \in Bools, o \in Bools, x \in Bools,
                                     c \in Bools, a \in {0} \cup Durations }
        \ {NoEnvelope}

ToolNames == {"webSearch", "callEmergencyServices", "describeEnvironment", "otherTool"}
\* function calls in one toolCall envelope
MaxCalls == 2
\* function calls received in one run
MaxReceived == 2
CallLists == UNION { [1..n -> ToolNames] : n \in 1..MaxCalls }

Max(a, b) == IF a >= b THEN a ELSE b

Task(kind, sess, pc, calls, dur, res) ==
    [kind |-> kind, sess |-> sess, pc |-> pc, calls |-> calls, dur |-> dur, res |-> res]

\* text + ' (Interrupted)'
Interrupted(text) == text \o <<"(Interrupted)">>

\* handleMessage, serverContent.interrupted: what is appended to the log.  The
\* handler reads the currentOutputTranscription of its own closure.
InterruptedLog(log, m, capOut) ==
    IF m.interrupted /\ capOut # <<>>
    THEN AddMessage(log, "ai", Interrupted(capOut))
    ELSE log

\* handleMessage, serverContent.turnComplete: what is appended to the log.  The
\* handler reads the transcriptions of its own closure.
TurnCompleteLog(log, m, capIn, capOut) ==
    IF ~m.turnComplete THEN log
    ELSE LET l1 == IF capIn # <<>> THEN AddMessage(log, "user", capIn) ELSE log
         IN IF capOut # <<>> THEN AddMessage(l1, "ai", capOut) ELSE l1

\* handleMessage(msg) of session a for a serverContent envelope, up to
\* await decodeAudioData (or its end when there is no audio payload).
HandleServerContent(a, m) ==
    /\ ~MicrotaskPending
    /\ a \in 1..Len(sessions)
    /\ sessions[a].ws = "OPEN"
    /\ inbound < MaxInbound
    /\ inbound' = inbound + 1
    /\ lastInbound' = m
    /\ currentInputTranscription' =
           IF m.turnComplete THEN <<>>
           ELSE IF m.inputTranscription THEN Append(currentInputTranscription, "u")
           ELSE currentInputTranscription
    /\ currentOutputTranscription' =
           IF m.turnComplete \/ m.interrupted THEN <<>>
           ELSE IF m.outputTranscription THEN Append(currentOutputTranscription, "v")
           ELSE currentOutputTranscription
    /\ playingSourcesRef' = IF m.interrupted THEN {} ELSE playingSourcesRef
    /\ nextStartTimeRef' = IF m.interrupted THEN 0 ELSE nextStartTimeRef
    /\ hasAIBeenInterruptedRef' =
           IF m.turnComplete THEN FALSE
           ELSE IF m.interrupted THEN TRUE
           ELSE hasAIBeenInterruptedRef
    /\ messages' = TurnCompleteLog(InterruptedLog(messages, m, sessions[a].capOut),
                                   m, sessions[a].capIn, sessions[a].capOut)
    /\ tasks' = IF m.audio > 0 /\ audioContextRef # NULL
                THEN tasks \cup {Task("audio", a, "decode", <<>>, m.audio, "none")}
                ELSE tasks
    /\ UNCHANGED <<flagVars, sessVars, currentTime, toolObs>>
    /\ UNCHANGED notLive

\* source.start(when) on outputContextRef.current, then
\* playingSourcesRef.current.add(source)
Source(when, dur) == [ctx |-> audioContextRef, start |-> when, dur |-> dur]

\* handleMessage after await decodeAudioData, started at the scheduling clock
\* without the Math.max against currentTime
InboundAudioScheduledNoMax(k) ==
    /\ k \in tasks
    /\ k.kind = "audio" /\ k.pc = "decode"
    /\ LET when == nextStartTimeRef
       IN /\ playingSourcesRef' = playingSourcesRef \cup {Source(when, k.dur)}
          /\ nextStartTimeRef' = when + k.dur
    /\ tasks' = tasks \ {k}
    /\ UNCHANGED <<flagVars, sessVars, textVars, messages, hasAIBeenInterruptedRef,
                   currentTime, inbound, lastInbound, toolObs>>
    /\ UNCHANGED notLive

\* handleMessage after await decodeAudioData:
\* nextStartTimeRef = Math.max(nextStartTimeRef, currentTime); start; advance
InboundAudioScheduled(k) ==
    /\ k \in tasks
    /\ k.kind = "audio" /\ k.pc = "decode"
    /\ LET when == Max(nextStartTimeRef, currentTime)
       IN /\ playingSourcesRef' = playingSourcesRef \cup {Source(when, k.dur)}
          /\ nextStartTimeRef' = when + k.dur
    /\ tasks' = tasks \ {k}
    /\ UNCHANGED <<flagVars, sessVars, textVars, messages, hasAIBeenInterruptedRef,
                   currentTime, inbound, lastInbound, toolObs>>
    /\ UNCHANGED notLive

\* The 'ended' event of a source: it leaves playingSourcesRef.  A source of a
\* closed context never ends.
SourceEnded(s) ==
    /\ ~MicrotaskPending
    /\ s \in playingSourcesRef
    /\ s.ctx \notin closedCtx
    /\ s.ctx = audioContextRef => currentTime >= s.start + s.dur
    /\ playingSourcesRef' = playingSourcesRef \ {s}
    /\ UNCHANGED <<flagVars, sessVars, textVars, messages, nextStartTimeRef,
                   hasAIBeenInterruptedRef, currentTime, tasks, inbound, lastInbound,
                   toolObs>>
    /\ UNCHANGED notLive

\* The audio thread advances currentTime of the running output context, also
\* while a handler is suspended at an await.
AudioTick ==
    /\ audioContextRef # NULL
    /\ audioContextRef \notin closedCtx
    /\ currentTime < MaxClock
    /\ currentTime' = currentTime + 1
    /\ UNCHANGED <<flagVars, sessVars, textVars, messages, audioVars, tasks, inbound,
                   lastInbound, toolObs>>
    /\ UNCHANGED notLive

\* liveSessionRef.current is set and its WebSocket is OPEN: what
\* processToolCall and sendToolResponse test before ws.send
TransportReady == liveSessionRef # NULL /\ sessions[liveSessionRef].ws = "OPEN"

\* processToolCall without the liveSessionRef and readyState tests
RespondUnguarded(st, id, res) ==
    [st EXCEPT !.sent = Append(@, [via |-> liveSessionRef, id |-> id,
                                   name |-> st.rcv[id], res |-> res])]

\* The end of processToolCall: the response of call id, written to the
\* transport of the session installed now, or dropped.
Respond(st, id, res) ==
    IF TransportReady
    THEN [st EXCEPT !.sent = Append(@, [via |-> liveSessionRef, id |-> id,
                                        name |-> st.rcv[id], res |-> res])]
    ELSE st

\* speakAndLog's suppression test
Busy == hasAIBeenInterruptedRef \/ playingSourcesRef # {}

\* The for loop of handleMessage over the calls not yet processed, from the
\* start of processToolCall for the first of them up to the first await that
\* waits for an event (generateSpeech, captureFrame's toBlob); awaits of
\* promises already settled are passed through.  st carries the log, the
\* responses sent, the callback and speech records; busy is speakAndLog's
\* suppression test, attached whether the getFrame prop finds a visualizer.
RECURSIVE Dispatch(_, _, _, _)

\* an unknown tool name that ends the for loop after its response
UnknownToolAborts(s1, id, rest, busy, attached) ==
    [Respond(s1, id, "unknown") EXCEPT !.pc = "done", !.calls = <<>>]

\* processToolCall's else branch: response = { result: `Unknown tool ...` },
\* sent like any other, and the for loop goes on with the calls left
UnknownTool(s1, id, rest, busy, attached) ==
    Dispatch(Respond(s1, id, "unknown"), rest, busy, attached)

Dispatch(st, calls, busy, attached) ==
    IF calls = <<>> THEN [st EXCEPT !.pc = "done", !.calls = <<>>]
    ELSE
    LET id == Head(calls)
        name == st.rcv[id]
        s1 == [st EXCEPT !.log = AddMessage(@, "tool_call", <<"Using", name>>),
                         !.calls = calls]
    IN CASE name = "webSearch" ->
              [s1 EXCEPT !.log = AddMessage(@, "ai", <<"Searching">>),
                         !.speech = Append(@, id), !.pc = "speech"]
         [] name = "callEmergencyServices" ->
              LET s2 == [s1 EXCEPT !.trig = Append(@, id),
                                   !.log = AddMessage(@, "ai",
                                             <<"Activating Emergency Dashboard.">>)]
              IN IF busy
                 THEN Dispatch(Respond(s2, id, "ok"), Tail(calls), busy, attached)
                 ELSE [s2 EXCEPT !.speech = Append(@, id), !.pc = "speech"]
         [] name = "describeEnvironment" ->
              IF attached
              THEN [s1 EXCEPT !.pc = "frame"]
              ELSE Dispatch(Respond(s1, id, "noframe"), Tail(calls), busy, attached)
         [] name = "findNearbyPlaces" -> [s1 EXCEPT !.pc = "nearby"]
         [] OTHER -> UnknownTool(s1, id, Tail(calls), busy, attached)

\* the observable records a handler step starts from
Start(rcv) == [log |-> messages, sent |-> sent, trig |-> emergencyTriggers,
               speech |-> speechRequests, grounded |-> groundedRequests, rcv |-> rcv,
               pc |-> "done", calls |-> <<>>, stage |-> "none"]

\* ... and what it leaves: the records, and the handler suspended at st.pc or gone
Leave(st, sess, old) ==
    /\ messages' = st.log
    /\ sent' = st.sent
    /\ emergencyTriggers' = st.trig
    /\ speechRequests' = st.speech
    /\ groundedRequests' = st.grounded
    /\ apiKey' = apiKey
    /\ received' = st.rcv
    /\ tasks' = (tasks \ old) \cup
                (IF st.calls = <<>> THEN {}
                 ELSE {Task("tool", sess, st.pc, st.calls, 0, st.stage)})

\* handleMessage(msg) of session a for a toolCall envelope with the named
\* function calls, up to the first await that waits for an event
HandleToolCall(a, names, attached) ==
    /\ ~MicrotaskPending
    /\ a \in 1..Len(sessions)
    /\ sessions[a].ws = "OPEN"
    /\ inbound < MaxInbound
    /\ inbound' = inbound + 1
    /\ lastInbound' = ToolCallEnvelope(names)
    /\ Len(received) + Len(names) <= MaxReceived
    /\ LET rcv == received \o names
           ids == [i \in 1..Len(names) |-> Len(received) + i]
       IN Leave(Dispatch(Start(rcv), ids, Busy, attached), a, {})
    /\ UNCHANGED <<flagVars, sessVars, textVars, audioVars, currentTime>>
    /\ UNCHANGED notLive

\* processToolCall of the call at the head of k after its speakAndLog has
\* returned: describeEnvironment goes on to analyzeSceneForNavigation, the
\* other tools respond and the for loop moves to the next call.
AfterSpeak(st, k, busy, attached) ==
    LET id == Head(k.calls)
    IN IF st.rcv[id] = "describeEnvironment"
       THEN [st EXCEPT !.pc = "analyze", !.calls = k.calls]
       ELSE IF st.rcv[id] = "findNearbyPlaces"
       THEN CASE k.res = "ask" -> [st EXCEPT !.pc = "locate", !.calls = k.calls]
              [] k.res = "apology" ->
                   Dispatch(Respond(st, id, "nolocation"), Tail(k.calls), busy, attached)
              [] k.res = "answer" ->
                   Dispatch(Respond(st, id, "answer"), Tail(k.calls), busy, attached)
              [] OTHER ->
                   Dispatch(Respond(st, id, "searchfailed"), Tail(k.calls), busy, attached)
       ELSE Dispatch(Respond(st, id, "ok"), Tail(k.calls), busy, attached)

\* speakAndLog(text, true) of executeNearby: the message is logged and speech
\* requested; the stage says which of its speeches the executor waits for.
NearbySpeak(st, k, text, stage) ==
    [st EXCEPT !.log = AddMessage(@, "ai", text), !.speech = Append(@, Head(k.calls)),
               !.pc = "speech", !.calls = k.calls, !.stage = stage]

\* executeNearby: "I couldn't get your location. Nearby search failed."
Apology(st, k) == NearbySpeak(st, k, <<"I couldn't get your location.">>, "apology")

\* executeNearby's catch: "Failed to search nearby places."
SearchFailed(st, k) == NearbySpeak(st, k, <<"Failed to search nearby places.">>, "fail")

\* executeNearby: ai.models.generateContent with retrievalConfig { latLng: loc }
Ground(st, k, loc) ==
    [st EXCEPT !.grounded = Append(@, [id |-> Head(k.calls), latLng |-> loc]),
               !.pc = "ground", !.calls = k.calls]

\* generateSpeech rejected: speakAndLog's catch swallows it, but the speech of
\* executeNearby's answer is requested inside its try block.
SpeechFailed(st, k, busy, attached) ==
    IF st.rcv[Head(k.calls)] = "findNearbyPlaces" /\ k.res = "answer"
    THEN SearchFailed(st, k)
    ELSE AfterSpeak(st, k, busy, attached)

\* await getFrame() settles and the description is requested whether or not
\* there is a frame
FrameDoneAnyway(k, frame, attached) ==
    /\ ~MicrotaskPending
    /\ k \in tasks
    /\ k.kind = "tool" /\ k.pc = "frame"
    /\ LET id == Head(k.calls)
           st == Start(received)
           s1 == [st EXCEPT !.log = AddMessage(@, "ai", <<"Analyzing your surroundings...">>),
                            !.calls = k.calls]
       IN Leave(IF Busy THEN [s1 EXCEPT !.pc = "analyze"]
                ELSE [s1 EXCEPT !.speech = Append(@, id), !.pc = "speech"],
                k.sess, {k})
    /\ UNCHANGED <<flagVars, sessVars, textVars, audioVars, currentTime, inbound,
                   lastInbound>>
    /\ UNCHANGED notLive

\* await getFrame() settles: with a frame, speakAndLog("Analyzing your
\* surroundings...", false, false) runs; without, the call is answered.
FrameDone(k, frame, attached) ==
    /\ ~MicrotaskPending
    /\ k \in tasks
    /\ k.kind = "tool" /\ k.pc = "frame"
    /\ LET id == Head(k.calls)
           st == Start(received)
           s1 == [st EXCEPT !.log = AddMessage(@, "ai", <<"Analyzing your surroundings...">>),
                            !.calls = k.calls]
       IN Leave(IF ~frame
                THEN Dispatch(Respond(st, id, "noframe"), Tail(k.calls), Busy, attached)
                ELSE IF Busy THEN [s1 EXCEPT !.pc = "analyze"]
                ELSE [s1 EXCEPT !.speech = Append(@, id), !.pc = "speech"],
                k.sess, {k})
    /\ UNCHANGED <<flagVars, sessVars, textVars, audioVars, currentTime, inbound,
                   lastInbound>>
    /\ UNCHANGED notLive

\* playAudio without stopping and clearing the playing sources
SpeechDoneNoClear(k, ok, dur, attached) ==
    /\ ~MicrotaskPending
    /\ k \in tasks
    /\ k.kind = "tool" /\ k.pc = "speech"
    /\ IF ok
       THEN /\ nextStartTimeRef' = currentTime
            /\ tasks' = (tasks \ {k}) \cup {[k EXCEPT !.pc = "decode", !.dur = dur]}
            /\ UNCHANGED <<messages, toolObs, playingSourcesRef>>
       ELSE /\ Leave(SpeechFailed(Start(received), k, Busy, attached), k.sess, {k})
            /\ UNCHANGED <<playingSourcesRef, nextStartTimeRef>>
    /\ UNCHANGED <<flagVars, sessVars, textVars, hasAIBeenInterruptedRef, currentTime,
                   inbound, lastInbound>>
    /\ UNCHANGED notLive

\* await generateSpeech(text, ttsVoice) settles.  Resolved: playAudio stops and
\* clears the playing sources, sets nextStartTimeRef to currentTime, builds the
\* buffer and awaits decodeAudioData.  Rejected: speakAndLog's catch.
SpeechDone(k, ok, dur, attached) ==
    /\ ~MicrotaskPending
    /\ k \in tasks
    /\ k.kind = "tool" /\ k.pc = "speech"
    /\ IF ok
       THEN /\ playingSourcesRef' = {}
            /\ nextStartTimeRef' = currentTime
            /\ tasks' = (tasks \ {k}) \cup {[k EXCEPT !.pc = "decode", !.dur = dur]}
            /\ UNCHANGED <<messages, toolObs>>
       ELSE /\ Leave(SpeechFailed(Start(received), k, Busy, attached), k.sess, {k})
            /\ UNCHANGED <<playingSourcesRef, nextStartTimeRef>>
    /\ UNCHANGED <<flagVars, sessVars, textVars, hasAIBeenInterruptedRef, currentTime,
                   inbound, lastInbound>>
    /\ UNCHANGED notLive

\* playAudio after await decodeAudioData: source.start(nextStartTimeRef.current);
\* nextStartTimeRef.current += buffer.duration; then speakAndLog returns.
PlayAudioScheduled(k, attached) ==
    /\ k \in tasks
    /\ k.kind = "tool" /\ k.pc = "decode"
    /\ playingSourcesRef' = playingSourcesRef \cup {Source(nextStartTimeRef, k.dur)}
    /\ nextStartTimeRef' = nextStartTimeRef + k.dur
    /\ Leave(AfterSpeak(Start(received), k, TRUE, attached), k.sess, {k})
    /\ UNCHANGED <<flagVars, sessVars, textVars, hasAIBeenInterruptedRef, currentTime,
                   inbound, lastInbound>>
    /\ UNCHANGED notLive

\* await analyzeSceneForNavigation(...) settles: the description is the result,
\* or processToolCall's catch makes it 'Tool execution failed.'
AnalyzeDone(k, ok, attached) ==
    /\ ~MicrotaskPending
    /\ k \in tasks
    /\ k.kind = "tool" /\ k.pc = "analyze"
    /\ Leave(Dispatch(Respond(Start(received), Head(k.calls), IF ok THEN "ok" ELSE "failed"),
                      Tail(k.calls), Busy, attached),
             k.sess, {k})
    /\ UNCHANGED <<flagVars, sessVars, textVars, audioVars, currentTime, inbound,
                   lastInbound>>
    /\ UNCHANGED notLive

\* executeNearby(query) of the call at the head of k, from its start to its
\* first await: the key test, then the location of the closure's
\* locationContext, the one of the render that startSession was called in.
ExecuteNearby(k, attached) ==
    /\ k \in tasks
    /\ k.kind = "tool" /\ k.pc = "nearby"
    /\ LET id == Head(k.calls)
           st == Start(received)
           loc == sessions[k.sess].capLocation
           needed == sessions[k.sess].capStatus \in {"idle", "pending"} \/ loc = NULL
       IN Leave(IF ~apiKey
                THEN Dispatch(Respond(st, id, "nokey"), Tail(k.calls), Busy, attached)
                ELSE IF needed
                THEN NearbySpeak(st, k, <<"I need your location.">>, "ask")
                ELSE Ground(st, k, loc),
                k.sess, {k})
    /\ UNCHANGED <<flagVars, sessVars, textVars, audioVars, currentTime, inbound,
                   lastInbound>>
    /\ UNCHANGED notLive

\* loc = await locationContext.requestLocation() of executeNearby, the call id
\* being the caller: the stored promise is joined, or the platform has no
\* geolocation and null comes back at once, or getCurrentPosition is called.
NearbyRequestLocation(k) ==
    /\ k \in tasks
    /\ k.kind = "tool" /\ k.pc = "locate"
    /\ LET c == Head(k.calls)
           st == [Start(received) EXCEPT !.calls = k.calls]
       IN /\ c \in Callers
          /\ callers[c].st # "waiting"
          /\ IF promiseRef # NULL
             THEN /\ callers' = [callers EXCEPT
                                   ![c] = [st |-> "waiting", req |-> promiseRef, val |-> 0]]
                  /\ Leave([st EXCEPT !.pc = "location"], k.sess, {k})
                  /\ UNCHANGED <<status, geoError, promiseRef, inflight, issued, outcome>>
             ELSE IF ~hasGeolocation
             THEN /\ status' = "unsupported"
                  /\ geoError' = TRUE
                  /\ callers' = [callers EXCEPT
                                   ![c] = [st |-> "resolved", req |-> 0, val |-> NULL]]
                  /\ Leave(Apology(st, k), k.sess, {k})
                  /\ UNCHANGED <<promiseRef, inflight, issued, outcome>>
             ELSE /\ status' = "pending"
                  /\ geoError' = FALSE
                  /\ issued' = issued + 1
                  /\ inflight' = inflight \cup {issued + 1}
                  /\ promiseRef' = issued + 1
                  /\ outcome' = Append(outcome, "pending")
                  /\ callers' = [callers EXCEPT
                                   ![c] = [st |-> "waiting", req |-> issued + 1, val |-> 0]]
                  /\ Leave([st EXCEPT !.pc = "location"], k.sess, {k})
    /\ UNCHANGED <<location, hasGeolocation>>
    /\ UNCHANGED <<flagVars, sessVars, textVars, audioVars, currentTime, inbound,
                   lastInbound>>
    /\ UNCHANGED <<camVars, loopVars, videoVars, voiceVars>>

\* executeNearby without the if (!loc) test
NearbyLocatedUnchecked(k) ==
    /\ ~MicrotaskPending
    /\ k \in tasks
    /\ k.kind = "tool" /\ k.pc = "location"
    /\ callers[Head(k.calls)].st = "resolved"
    /\ Leave(Ground(Start(received), k, callers[Head(k.calls)].val), k.sess, {k})
    /\ UNCHANGED <<flagVars, sessVars, textVars, audioVars, currentTime, inbound,
                   lastInbound>>
    /\ UNCHANGED notLive

\* the promise of requestLocation has settled: if (!loc) the apology, else the
\* grounded request with the value the promise delivered
NearbyLocated(k) ==
    /\ ~MicrotaskPending
    /\ k \in tasks
    /\ k.kind = "tool" /\ k.pc = "location"
    /\ callers[Head(k.calls)].st = "resolved"
    /\ LET loc == callers[Head(k.calls)].val
           st == Start(received)
       IN Leave(IF loc = NULL THEN Apology(st, k) ELSE Ground(st, k, loc), k.sess, {k})
    /\ UNCHANGED <<flagVars, sessVars, textVars, audioVars, currentTime, inbound,
                   lastInbound>>
    /\ UNCHANGED notLive

\* await ai.models.generateContent(...) settles.  Resolved: the answer is
\* logged with its sources and its speech requested.  Rejected: the catch.
NearbyGrounded(k, ok) ==
    /\ ~MicrotaskPending
    /\ k \in tasks
    /\ k.kind = "tool" /\ k.pc = "ground"
    /\ LET st == Start(received)
       IN Leave(IF ok THEN NearbySpeak(st, k, <<"places">>, "answer")
                ELSE SearchFailed(st, k),
                k.sess, {k})
    /\ UNCHANGED <<flagVars, sessVars, textVars, audioVars, currentTime, inbound,
                   lastInbound>>
    /\ UNCHANGED notLive

StopSpeaking ==
    /\ ~MicrotaskPending
    /\ playingSourcesRef' = {}
    /\ hasAIBeenInterruptedRef' = TRUE
    /\ UNCHANGED <<flagVars, sessVars, textVars, messages, nextStartTimeRef, currentTime,
                   tasks, inbound, lastInbound, toolObs>>
    /\ UNCHANGED notLive

\* clearMessages: setMessages([]), from the chat pane's clear button
ClearMessages ==
    /\ ~MicrotaskPending
    /\ messages' = <<>>
    /\ UNCHANGED <<flagVars, sessVars, textVars, audioVars, currentTime, tasks, inbound,
                   lastInbound, toolObs>>
    /\ UNCHANGED notLive

\* stopSession, startSession and the events of the attempts
NextSession ==
    \/ StartSession
    \/ \E a \in 1..Len(sessions), throws \in BOOLEAN : MicGranted(a, throws)
    \/ \E a \in 1..Len(sessions) : MicDenied(a)
    \/ \E a \in 1..Len(sessions) : WsOpen(a)
    \/ \E a \in 1..Len(sessions) : WsError(a)
    \/ \E a \in 1..Len(sessions) : WsClose(a)
    \/ StopSession

\* The specifications of message handling follow one startSession call.
StartFirstSession == sessions = <<>> /\ StartSession

OneSession ==
    \/ StartFirstSession
    \/ \E throws \in BOOLEAN : MicGranted(1, throws)
    \/ MicDenied(1)
    \/ WsOpen(1)
    \/ WsError(1)
    \/ WsClose(1)
    \/ StopSession

Playback ==
    \/ \E s \in playingSourcesRef : SourceEnded(s)
    \/ AudioTick
    \/ StopSpeaking

\* serverContent envelopes: transcripts, interruption, turn completion, audio
NextTurns ==
    \/ OneSession
    \/ Playback
    \/ \E m \in ServerContents : HandleServerContent(1, m)
    \/ \E k \in tasks : InboundAudioScheduled(k)

\* the envelopes that carry the interruption signal and nothing else
Interruptions == {ServerContent(FALSE, FALSE, TRUE, FALSE, 0)}

\* toolCall envelopes, and interruptions between them
NextTools ==
    \/ OneSession
    \/ Playback
    \/ \E m \in Interruptions : HandleServerContent(1, m)
    \/ \E names \in CallLists, attached \in BOOLEAN : HandleToolCall(1, names, attached)
    \/ \E k \in tasks, frame \in BOOLEAN, attached \in BOOLEAN : FrameDone(k, frame, attached)
    \/ \E k \in tasks, ok \in BOOLEAN, dur \in Durations, attached \in BOOLEAN :
          SpeechDone(k, ok, dur, attached)
    \/ \E k \in tasks, attached \in BOOLEAN : PlayAudioScheduled(k, attached)
    \/ \E k \in tasks, ok \in BOOLEAN, attached \in BOOLEAN : AnalyzeDone(k, ok, attached)

\* the envelopes of one short turn: an output transcript delta, an audio
\* payload, an interruption
RestartContents ==
    { ServerContent(FALSE, TRUE, FALSE, FALSE, 0),
      ServerContent(FALSE, FALSE, FALSE, FALSE, 1),
      ServerContent(FALSE, FALSE, TRUE, FALSE, 0) }

\* sessions started and stopped one after another, each with a short turn
NextRestart ==
    \/ NextSession
    \/ StopSpeaking
    \/ \E a \in 1..Len(sessions), m \in RestartContents : HandleServerContent(a, m)
    \/ \E k \in tasks : InboundAudioScheduled(k)

\* the operations that write the log: the session's start and stop, toolCall
\* envelopes and interruptions, stopSpeaking, and clearMessages at any time
NextLog ==
    \/ OneSession
    \/ StopSpeaking
    \/ ClearMessages
    \/ \E m \in Interruptions : HandleServerContent(1, m)
    \/ \E names \in CallLists, attached \in BOOLEAN : HandleToolCall(1, names, attached)
    \/ \E k \in tasks, frame \in BOOLEAN, attached \in BOOLEAN : FrameDone(k, frame, attached)
    \/ \E k \in tasks, ok \in BOOLEAN, dur \in Durations, attached \in BOOLEAN :
          SpeechDone(k, ok, dur, attached)
    \/ \E k \in tasks, attached \in BOOLEAN : PlayAudioScheduled(k, attached)
    \/ \E k \in tasks, ok \in BOOLEAN, attached \in BOOLEAN : AnalyzeDone(k, ok, attached)

\* toolCall envelopes that carry findNearbyPlaces calls
NearbyLists == UNION { [1..n -> {"findNearbyPlaces"}] : n \in 1..MaxCalls }

\* The specification follows the first toolCall envelope of the session.
FirstToolCall == received = <<>> /\ \E names \in NearbyLists : HandleToolCall(1, names, FALSE)

\* findNearbyPlaces calls of one session, while another part of the
\* application (caller NCallers) uses the same location provider
NextNearby ==
    \/ OneSession
    \/ ~MicrotaskPending /\ RequestLocationJoin(NCallers)
    \/ ~MicrotaskPending /\ RequestLocationUnsupported(NCallers)
    \/ ~MicrotaskPending /\ RequestLocationIssue(NCallers)
    \/ ~MicrotaskPending /\ \E r \in inflight, fix \in Fixes : PositionSuccess(r, fix)
    \/ ~MicrotaskPending /\ \E r \in inflight : PositionError(r)
    \/ FirstToolCall
    \/ \E k \in tasks : ExecuteNearby(k, FALSE)
    \/ \E k \in tasks : NearbyRequestLocation(k)
    \/ \E k \in tasks : NearbyLocated(k)
    \/ \E k \in tasks, ok \in BOOLEAN : NearbyGrounded(k, ok)
    \/ \E k \in tasks, ok \in BOOLEAN, dur \in Durations : SpeechDone(k, ok, dur, FALSE)
    \/ \E k \in tasks : PlayAudioScheduled(k, FALSE)

(***************************************************************************)
(* VisualPane: forwarding camera frames to the live session                *)
(***************************************************************************)
InitVideo ==
    /\ isVisualsOpen = TRUE
    /\ streamDeps = <<TRUE, FALSE, FALSE>>
    /\ streamInterval = NULL
    /\ intervals = {}
    /\ capturing = 0
    /\ videoSent = <<>>

\* the dependencies of the streaming effect in the current render
StreamDeps == <<isVisualsOpen, isListening, isEnabled>>

\* if (isOpen && isListening && webcam.isEnabled)
Streaming(deps) == deps[1] /\ deps[2] /\ deps[3]

\* a timer id that differs from the one streamInterval holds
NewInterval == IF streamInterval = 1 THEN 2 ELSE 1

\* AmbientMode's onEnable: setIsVisualsOpen(true), VisualPane mounts
OpenPane ==
    /\ ~MicrotaskPending
    /\ ~isVisualsOpen
    /\ isVisualsOpen' = TRUE
    /\ UNCHANGED <<streamDeps, streamInterval, intervals, capturing, videoSent>>
    /\ UNCHANGED notVideo

\* VisualPane's onClose: setIsVisualsOpen(false), VisualPane unmounts
ClosePane ==
    /\ ~MicrotaskPending
    /\ isVisualsOpen
    /\ isVisualsOpen' = FALSE
    /\ UNCHANGED <<streamDeps, streamInterval, intervals, capturing, videoSent>>
    /\ UNCHANGED notVideo

\* A render changed a dependency of the streaming effect (or unmounted
\* VisualPane): the cleanup of the last run clears the interval streamInterval
\* holds, then the effect sets a new interval or, in its else branch, clears
\* again.  The ref of an unmounted VisualPane is gone.
StreamEffect ==
    /\ streamDeps # StreamDeps
    /\ streamDeps' = StreamDeps
    /\ IF Streaming(StreamDeps)
       THEN /\ intervals' = (intervals \ {streamInterval}) \cup {NewInterval}
            /\ streamInterval' = NewInterval
       ELSE /\ intervals' = intervals \ {streamInterval}
            /\ streamInterval' = IF isVisualsOpen THEN streamInterval ELSE NULL
    /\ UNCHANGED <<isVisualsOpen, capturing, videoSent>>
    /\ UNCHANGED notVideo

\* The interval fires (effects pending after a render run first): visRef holds
\* the CameraVisualizer, mounted while the camera is enabled, and the callback
\* waits for captureFrame().
IntervalFire(i) ==
    /\ ~MicrotaskPending
    /\ streamDeps = StreamDeps
    /\ i \in intervals
    /\ isVisualsOpen /\ isEnabled
    /\ capturing + Len(videoSent) < MaxVideoFrames
    /\ capturing' = capturing + 1
    /\ UNCHANGED <<isVisualsOpen, streamDeps, streamInterval, intervals, videoSent>>
    /\ UNCHANGED notVideo

\* sendVideoFrame(frame): liveSessionRef.current.sendRealtimeInput, which
\* writes to the WebSocket if its readyState is OPEN
SendVideoFrame ==
    IF TransportReady
    THEN Append(videoSent, [via |-> liveSessionRef])
    ELSE videoSent

\* captureFrame() of an interval callback settles: if (frame) sendVideoFrame(frame)
FrameCaptured(frame) ==
    /\ ~MicrotaskPending
    /\ capturing > 0
    /\ capturing' = capturing - 1
    /\ videoSent' = IF frame THEN SendVideoFrame ELSE videoSent
    /\ UNCHANGED <<isVisualsOpen, streamDeps, streamInterval, intervals>>
    /\ UNCHANGED notVideo

\* the pane, the camera, one dialogue session and the forwarding of frames
NextVideo ==
    \/ OneSession
    \/ \E mode \in FacingModes : EnableWebcam(mode)
    \/ \E p \in pendingEnable, torch \in BOOLEAN : GetUserMediaResolve(p, torch)
    \/ DisableWebcam
    \/ OpenPane
    \/ ClosePane
    \/ StreamEffect
    \/ \E i \in intervals : IntervalFire(i)
    \/ \E frame \in BOOLEAN : FrameCaptured(frame)

(***************************************************************************)
(* UnifiedAssistant: voice commands read from the input transcription      *)
(***************************************************************************)
\* the calls of a turn after which the parent's props stay as they are
MaxCommands == 2

\* What a transcription delta carries: a command phrase or other speech.  The
\* transcription is the sequence of the deltas appended since it was cleared.
Words == {"show camera", "hide visuals", "switch camera", "turn on flash", "please"}

\* the component as mounted: the pane hidden, a device with one camera and
\* no torch, and the effect's first run behind it
InitVoice ==
    /\ showVisualPane = FALSE
    /\ visualPaneMode = "hidden"
    /\ hasMultipleCameras = FALSE
    /\ appCameraHasTorch = FALSE
    /\ appTorchEnabled = FALSE
    /\ commandDeps = <<<<>>, FALSE, "hidden", FALSE, FALSE, FALSE, FALSE>>
    /\ commandCalls = <<>>

\* lowerCaseInput.includes(phrase)
Includes(text, phrase) == \E i \in 1..Len(text) : text[i] = phrase

\* The values in the effect's dependency list: the transcription, the
\* assistant's activity, the pane and the camera's capabilities.
CommandDeps ==
    <<currentInputTranscription, isAssistantActive, visualPaneMode, showVisualPane,
      hasMultipleCameras, appCameraHasTorch, appTorchEnabled>>

\* A render has changed a dependency and its effect has not run yet.  React
\* runs the effects of a render before it renders the next update.
CommandEffectPending == commandDeps # CommandDeps

\* one call the effect made, and the phrase whose branch made it
Call(fn, phrase) == [fn |-> fn, phrase |-> phrase]

\* The parent renders the component with other camera capabilities.
PropsChange ==
    /\ ~CommandEffectPending
    /\ Len(commandCalls) < MaxCommands
    /\ \E multiple, torch, on \in BOOLEAN :
         /\ <<multiple, torch, on>> # <<hasMultipleCameras, appCameraHasTorch, appTorchEnabled>>
         /\ hasMultipleCameras' = multiple
         /\ appCameraHasTorch' = torch
         /\ appTorchEnabled' = on
    /\ UNCHANGED <<showVisualPane, visualPaneMode, commandDeps, commandCalls>>
    /\ UNCHANGED <<liveVars, notVoice>>

\* handleMessage(msg) of session a for a serverContent envelope that carries
\* an input transcription delta or the turn's completion.
SpokenContents ==
    {[word |-> w, turnComplete |-> FALSE] : w \in Words}
        \cup {[word |-> "", turnComplete |-> TRUE]}

HandleSpokenContent(a, m) ==
    /\ ~MicrotaskPending
    /\ ~CommandEffectPending
    /\ a \in 1..Len(sessions)
    /\ sessions[a].ws = "OPEN"
    /\ inbound < MaxInbound
    /\ inbound' = inbound + 1
    /\ lastInbound' = m
    /\ currentInputTranscription' =
           IF m.turnComplete THEN <<>> ELSE Append(currentInputTranscription, m.word)
    /\ currentOutputTranscription' =
           IF m.turnComplete THEN <<>> ELSE currentOutputTranscription
    /\ hasAIBeenInterruptedRef' =
           IF m.turnComplete THEN FALSE ELSE hasAIBeenInterruptedRef
    /\ messages' = TurnCompleteLog(messages, m, sessions[a].capIn, sessions[a].capOut)
    /\ commandCalls' = IF m.turnComplete THEN <<>> ELSE commandCalls
    /\ UNCHANGED <<flagVars, sessVars, playingSourcesRef, nextStartTimeRef, currentTime,
                   tasks, toolObs>>
    /\ UNCHANGED <<showVisualPane, visualPaneMode, hasMultipleCameras, appCameraHasTorch,
                   appTorchEnabled, commandDeps>>
    /\ UNCHANGED notVoice

\* The voice command effect, run after a render in which one of its
\* dependencies changed.  It reads the whole transcription of the turn so far.
\* handleToggleVisualPane shows the pane in camera mode or clears it; of the
\* props the branches call, the calls of onToggleCamera and onToggleTorch are
\* kept, with those of handleToggleVisualPane.
VoiceCommandEffect ==
    /\ CommandEffectPending
    /\ commandDeps' = CommandDeps
    /\ LET text == currentInputTranscription
           runs == text # <<>> /\ isAssistantActive
           show == runs /\ Includes(text, "show camera")
           hide == runs /\ ~show /\ Includes(text, "hide visuals")
           toggles == (show /\ ~showVisualPane) \/ (hide /\ showVisualPane)
           camera == runs /\ visualPaneMode = "camera" /\ showVisualPane
           switch == camera /\ Includes(text, "switch camera")
           flash == camera /\ ~switch /\ Includes(text, "turn on flash")
       IN /\ showVisualPane' = IF toggles THEN ~showVisualPane ELSE showVisualPane
          /\ visualPaneMode' =
                 IF ~toggles THEN visualPaneMode
                 ELSE IF showVisualPane THEN "hidden" ELSE "camera"
          /\ commandCalls' =
                 commandCalls
                 \o (IF toggles
                     THEN <<Call("handleToggleVisualPane",
                                 IF show THEN "show camera" ELSE "hide visuals")>>
                     ELSE <<>>)
                 \o (IF switch /\ hasMultipleCameras
                     THEN <<Call("onToggleCamera", "switch camera")>>
                     ELSE <<>>)
                 \o (IF flash /\ appCameraHasTorch /\ ~appTorchEnabled
                     THEN <<Call("onToggleTorch", "turn on flash")>>
                     ELSE <<>>)
    /\ UNCHANGED <<hasMultipleCameras, appCameraHasTorch, appTorchEnabled>>
    /\ UNCHANGED <<liveVars, notVoice>>

NextVoice ==
    \/ OneSession
    \/ \E m \in SpokenContents : HandleSpokenContent(1, m)
    \/ VoiceCommandEffect
    \/ PropsChange

(***************************************************************************)
(* Specifications                                                          *)
(***************************************************************************)
Init == InitCam /\ InitGeo /\ InitLoop /\ InitLive /\ InitVideo /\ InitVoice
\* a browser with navigator.geolocation and a build with the client-side key,
\* for the specifications that read neither
InitBrowser == Init /\ hasGeolocation /\ apiKey
\* any platform, for the specification of the location provider
InitPlatform == Init /\ apiKey

SpecCam == InitBrowser /\ [][NextCam]_vars
SpecGeo == InitPlatform /\ [][NextGeo]_vars
SpecLoop == InitBrowser /\ [][NextLoop]_vars
SpecSession == InitBrowser /\ [][NextSession]_vars
SpecTurns == InitBrowser /\ [][NextTurns]_vars
SpecTools == InitBrowser /\ [][NextTools]_vars
SpecNearby == Init /\ [][NextNearby]_vars
SpecLog == InitBrowser /\ [][NextLog]_vars
SpecVideo == InitBrowser /\ [][NextVideo]_vars
SpecRestart == InitBrowser /\ [][NextRestart]_vars
SpecVoice == InitBrowser /\ [][NextVoice]_vars
\* The location provider on a platform that answers every getCurrentPosition
\* call with one of its callbacks (the options carry timeout: 10000).
SpecGeoFair ==
    /\ InitPlatform /\ [][NextGeo]_vars
    /\ \A r \in 1..MaxGeoRequests :
          WF_vars(PositionError(r) \/ \E fix \in Fixes : PositionSuccess(r, fix))
\* The analysis loop with the event loop's guarantees: time passes, a timer
\* that has expired fires, and the promises of captureFrame (canvas.toBlob) and
\* of the detection request (fetch) settle.
SpecLoopFair ==
    /\ InitBrowser /\ [][NextLoop]_vars
    /\ WF_vars(Tick)
    /\ \A e \in 1..MaxEffects :
          /\ WF_vars(\E online \in BOOLEAN : TimerFire(e, online))
          /\ WF_vars(\E frame \in BOOLEAN : CaptureDone(e, frame))
          /\ WF_vars(\/ \E d \in SceneDescriptions, objs \in DetectedObjects : DetectSuccess(e, d, objs)
                     \/ \E kind \in FailureKinds : DetectFailure(e, kind))

(***************************************************************************)
(* Properties                                                              *)
(***************************************************************************)
ToolTasks == {k \in tasks : k.kind = "tool"}
\* call id is waiting in the for loop of its envelope's handler
Queued(id) == \E k \in ToolTasks : \E i \in 2..Len(k.calls) : k.calls[i] = id
\* processToolCall has started for call id
Begun(id) == id \in 1..Len(received) /\ ~Queued(id)
\* processToolCall has returned for call id
Finished(id) == Begun(id) /\ \A k \in ToolTasks : Head(k.calls) # id
\* the responses written for call id
Responses(id) == {i \in 1..Len(sent) : sent[i].id = id}

\* C1, as stated: every call whose processToolCall has returned has exactly
\* one tool response with its id and name, whatever happened to the session
\* while its executor ran.
C1_EveryCallAnswered ==
    \A id \in 1..Len(received) :
        Finished(id) =>
            /\ Cardinality(Responses(id)) = 1
            /\ \A i \in Responses(id) : sent[i].name = received[id]

\* C1, amended: when processToolCall returns for a call, it has written
\* exactly one tool response with the call's id and name if a session handle is
\* installed and its transport is open at that moment, and none otherwise; a
\* thrown executor changes only the result; no call ever has two responses.
C1_AnsweredIffTransportOpen ==
    [][\A id \in 1..Len(received') :
          /\ Cardinality(Responses(id)') <= 1
          /\ (Finished(id)' /\ ~Finished(id)) =>
                LET new == {i \in Responses(id)' : i > Len(sent)}
                IN IF liveSessionRef # NULL /\ sessions[liveSessionRef].ws = "OPEN"
                   THEN /\ Cardinality(new) = 1
                        /\ \A i \in new : /\ sent'[i].name = received'[id]
                                          /\ sent'[i].via = liveSessionRef
                   ELSE new = {}]_vars

\* C1, the case: an executor threw and its call was answered with the failure
\* result, and another call finished after stopSession and was not answered.
C1_Witness ==
    /\ \E i \in 1..Len(sent) : sent[i].res = "failed"
    /\ \E id \in 1..Len(received) : Finished(id) /\ Responses(id) = {}
    /\ liveSessionRef = NULL

\* C2: tool responses are sent in the order the calls were received and no
\* two executors are in progress at the same time.
C2_ResponsesInOrderOneExecutor ==
    /\ \A i, j \in 1..Len(sent) : i < j => sent[i].id < sent[j].id
    /\ Cardinality(ToolTasks) <= 1

\* C3: when a turn-complete signal is handled while both transcript buffers
\* are non-empty, the log grows by a user entry with the input text and an
\* assistant entry with the output text, both buffers end empty and the
\* interrupted flag false.
C3_TurnCompleteCommitsBoth ==
    [][(/\ inbound' = inbound + 1
        /\ lastInbound' = ServerContent(FALSE, FALSE, FALSE, TRUE, 0)
        /\ currentInputTranscription # <<>>
        /\ currentOutputTranscription # <<>>)
       => /\ messages' = messages \o
                <<[type |-> "user", text |-> currentInputTranscription],
                  [type |-> "ai", text |-> currentOutputTranscription]>>
          /\ currentInputTranscription' = <<>>
          /\ currentOutputTranscription' = <<>>
          /\ ~hasAIBeenInterruptedRef']_vars

\* C4: handling an interruption leaves no scheduled source and the scheduling
\* clock reset, and every source scheduled in any step starts no earlier than
\* the audio clock's time at that step.
C4_NoSegmentBeforeNow ==
    [][/\ (inbound' = inbound + 1 /\ lastInbound'.interrupted)
            => (playingSourcesRef' = {} /\ nextStartTimeRef' <= currentTime')
       /\ \A s \in playingSourcesRef' \ playingSourcesRef : s.start >= currentTime]_vars

\* C5: at most one capture stream has live tracks at any time.
C5_AtMostOneLiveStream == Cardinality(liveStreams) <= 1

\* C6: at most one platform request is in flight and it is the stored one;
\* every waiting caller waits for it; every caller resolved by a request holds
\* what the platform called that request back with.
C6_RequestsCoalesced ==
    /\ Cardinality(inflight) <= 1
    /\ inflight = IF promiseRef = NULL THEN {} ELSE {promiseRef}
    /\ \A c \in Callers :
          /\ callers[c].st = "waiting" => callers[c].req \in inflight
          /\ (callers[c].st = "resolved" /\ callers[c].req # 0)
                => callers[c].val = outcome[callers[c].req]

\* C6, the case: three callers were resolved by one platform request with
\* the same fix, and a later call issued the next request.
C6_Witness ==
    /\ issued = 2
    /\ \A c \in {1, 2} : callers[c] = [st |-> "resolved", req |-> 1, val |-> outcome[1]]
    /\ outcome[1] \in Fixes
    /\ callers[3].st = "waiting" /\ callers[3].req = 2

\* C7: a frame capture of the mounted instance starts only when the backoff
\* of the last detection failure (60, 10 or 5 seconds) has run down.
C7_NoCaptureDuringBackoff ==
    [][\A e \in 1..Len(eff') :
          (/\ eff'[e].pc = "capture"
           /\ eff'[e].inst = mountId'
           /\ (e > Len(eff) \/ eff[e].pc # "capture"))
          => backoffLeft = 0]_vars

\* C8: when the result on display carries the marker, the emergency callback
\* has been invoked for its emergency type.
C8_MarkerInvokesCallback ==
    (boundingBoxes # <<>> /\ IncludesMarker(boundingBoxes[1]))
        => \E i \in 1..Len(emergencyFired) :
              emergencyFired[i] = EmergencyType(boundingBoxes[1])

\* C9: every callEmergencyServices call that processToolCall has started has
\* invoked the emergency callback exactly once and had its confirmation sent
\* to speech synthesis.
C9_EmergencyTriggeredAndSpoken ==
    \A id \in 1..Len(received) :
        (received[id] = "callEmergencyServices" /\ Begun(id)) =>
            /\ Cardinality({i \in 1..Len(emergencyTriggers) : emergencyTriggers[i] = id}) = 1
            /\ \E i \in 1..Len(speechRequests) : speechRequests[i] = id

\* C10: an attempt that stopSession found connecting never opens a transport
\* that stays open, installs no session handle, connects no microphone chain,
\* and none of its callbacks sets isListening or isAssistantActive.
C10_StopCancelsConnect ==
    [][\A a \in 1..Len(sessions) :
          sessions[a].stopped =>
             /\ sessions'[a].ws # "OPEN"
             /\ liveSessionRef' # a
             /\ a \notin micPipeline'
             /\ sessions'[a] # sessions[a] =>
                   /\ isListening' => isListening
                   /\ isAssistantActive' => isAssistantActive]_vars
\* no attempt other than a is in flight or has an open transport
Alone(a) ==
    \A b \in 1..Len(sessions) \ {a} :
        sessions[b].pc \notin {"mic", "connect"} /\ sessions[b].ws # "OPEN"

\* C11: a setup failure leaves isConnecting false and appends one assistant
\* message; a transport error or remote close of the open session, and
\* stopSession, leave isListening and isConnecting false.
C11_TerminalPathsIdle ==
    [][/\ \A a \in 1..Len(sessions) :
            (Alone(a) /\ sessions[a].pc \in {"mic", "connect"} /\ sessions'[a].pc = "failed")
            => /\ ~isListening' /\ ~isConnecting'
               /\ Len(messages') = Len(messages) + 1
               /\ messages'[Len(messages')].type = "ai"
       /\ \A a \in 1..Len(sessions) :
            (Alone(a) /\ sessions[a].ws = "OPEN" /\ sessions'[a].ws = "CLOSED")
            => ~isListening' /\ ~isConnecting'
       /\ StopSession => ~isListening' /\ ~isConnecting']_vars

\* the step in which the handler suspended as k runs on
Resumes(k) == k \in tasks /\ k \notin tasks'
\* the handler of k's calls, as the step leaves it
After(k, pc, stage) ==
    \E j \in tasks' : j.kind = "tool" /\ j.calls = k.calls /\ j.pc = pc /\ j.res = stage

\* executeNearby starting with no fix stored and status idle goes on to ask for
\* the location; keyed: only builds with the client-side key are considered
NearbyAsks(keyed) ==
    \A k \in tasks :
        (Resumes(k) /\ k.pc = "nearby" /\ location = NULL /\ status = "idle"
            /\ (keyed => apiKey))
        => After(k, "speech", "ask")

\* ... and calls requestLocation once the prompt is spoken
NearbyRequests ==
    \A k \in tasks :
        (Resumes(k) /\ k.pc = "locate")
        => /\ callers'[Head(k.calls)].st \in {"waiting", "resolved"}
           /\ hasGeolocation => promiseRef' # NULL

\* a request that resolved to null: the apology is logged and its speech
\* requested, and no grounded request is issued
NearbyNullApologises ==
    \A k \in tasks :
        (/\ Resumes(k)
         /\ \/ k.pc = "location" /\ callers[Head(k.calls)].val = NULL
            \/ k.pc = "locate" /\ callers'[Head(k.calls)].st = "resolved")
        => /\ After(k, "speech", "apology")
           /\ messages' = AddMessage(messages, "ai", <<"I couldn't get your location.">>)
           /\ speechRequests' = Append(speechRequests, Head(k.calls))
           /\ groundedRequests' = groundedRequests

\* ... and the failure result is what the call is answered with
NearbyNullFails ==
    \A k \in tasks :
        (Resumes(k) /\ k.res = "apology" /\ ~After(k, "decode", "apology") /\ TransportReady)
        => /\ Len(sent') = Len(sent) + 1
           /\ sent'[Len(sent')].id = Head(k.calls)
           /\ sent'[Len(sent')].res = "nolocation"

\* every grounded request carries a fix, and none is issued for a call whose
\* location request delivered null
GroundedOnlyWithFix ==
    \A i \in 1..Len(groundedRequests) :
        /\ groundedRequests[i].latLng \in Fixes
        /\ callers[groundedRequests[i].id].st = "resolved"
           => groundedRequests[i].latLng = callers[groundedRequests[i].id].val

LoopStopped ==
    /\ mountId # 0
    /\ mountId' = 0 \/ (isDetectionEnabled /\ ~isDetectionEnabled')
\* a reschedule (a setTimeout of some runAnalysis) is pending
PendingReschedule == \E e \in 1..Len(eff) : eff[e].timeoutId # NoTimer

\* C13: disabling the camera or switching detection off cancels the pending
\* reschedule of the analysis loop and resets the analysis state (the result,
\* set together with the selected object and the coverage ratio, and the
\* emergency de-duplication key).
C13_StopCancelsAndClears ==
    [][LoopStopped =>
          /\ ~PendingReschedule'
          /\ boundingBoxes' = <<>>
          /\ \A i \in 1..Len(emergencyTriggeredRef') :
                 emergencyTriggeredRef'[i] = <<"null">>]_vars

\* the closures of effect runs that have been cleaned up
OldClosures == {e \in 1..Len(eff) : e # curEff}

\* C14: after the effect is torn down, no timer of the old run fires a further
\* cycle, and no cycle of the old run captures a frame or writes the analysis
\* result, also when its detection request completes after the teardown.
C14_NoOrphanedCycle ==
    [][\A e \in OldClosures :
          /\ ~(eff[e].timeoutId = 0 /\ eff'[e] # eff[e])
          /\ ~(eff[e].pc # "capture" /\ eff'[e].pc = "capture")
          /\ (eff[e].pc = "detect" /\ eff'[e].pc = "idle")
             => boundingBoxes' = boundingBoxes]_vars

\* the cycles whose generateObjectDescription request is outstanding
Detecting == {e \in 1..Len(eff) : eff[e].pc = "detect"}

\* C15: at most one detection request of the analysis loop is outstanding at
\* any time, across effect re-runs and across the camera being disabled and
\* enabled again.
C15_OneDetectionOutstanding == Cardinality(Detecting) <= 1

\* the camera is enabled and the detection toggle on
LoopOn == mountId # 0 /\ isDetectionEnabled
\* runAnalysis is invoked for the mounted visualizer: by a timer of one of its
\* effect runs, or by a new run of the effect
CycleAttempt ==
    \/ \E e \in 1..Len(eff), online \in BOOLEAN : eff[e].inst = mountId /\ TimerFire(e, online)
    \/ LoopOn' /\ Len(eff') > Len(eff)

\* C16: while the camera stays enabled and detection stays on, every cycle
\* outcome is eventually followed by another cycle attempt: the loop never
\* stalls.
C16_LoopNeverStalls == []<>(~LoopOn) \/ []<><<CycleAttempt>>_vars

\* a cycle was skipped because another was in flight: the latest effect run
\* holds no timer, the loop goes on with the timer of an earlier run
C16_Witness ==
    /\ LoopOn /\ curEff # 0
    /\ eff[curEff].pc = "idle" /\ eff[curEff].timeoutId = NoTimer
    /\ \E e \in OldClosures : eff[e].inst = mountId /\ eff[e].timeoutId = 0

\* a toolCall envelope with the one call named arrives in this step
Arrives(name) == inbound' = inbound + 1 /\ lastInbound' = ToolCallEnvelope(<<name>>)
AiMessages(log) == Cardinality({i \in 1..Len(log) : log[i].type = "ai"})
\* no handler is suspended in the call received last
NotSuspended == \A k \in tasks' : k.kind = "tool" => Head(k.calls) # Len(received')

\* speakAndLog(text, false, false), as callEmergencyServices calls it: one
\* assistant message; suppressed, it requests no speech and schedules nothing
SpeakSuppressible ==
    Arrives("callEmergencyServices")
    => /\ AiMessages(messages') = AiMessages(messages) + 1
       /\ IF Busy
          THEN /\ speechRequests' = speechRequests
               /\ playingSourcesRef' = playingSourcesRef
               /\ NotSuspended
          ELSE speechRequests' = Append(speechRequests, Len(received'))

\* speakAndLog(text), as webSearch calls it: one assistant message, and speech
\* is requested whatever is playing
SpeakAlways ==
    Arrives("webSearch")
    => /\ AiMessages(messages') = AiMessages(messages) + 1
       /\ speechRequests' = Append(speechRequests, Len(received'))

\* speech that was requested is played: the sources are stopped and cleared
SpeechPlays ==
    \A k \in tasks :
        (Resumes(k) /\ k.pc = "speech")
        => After(k, "decode", k.res) /\ playingSourcesRef' = {}

\* ... when generateSpeech resolves; when it rejects nothing is played and
\* the scheduled sources stay
SpeechPlaysIfSynthesized ==
    \A k \in tasks :
        (Resumes(k) /\ k.pc = "speech")
        => IF After(k, "decode", k.res)
           THEN playingSourcesRef' = {}
           ELSE playingSourcesRef' = playingSourcesRef /\ nextStartTimeRef' = nextStartTimeRef

\* the speech is scheduled as the only source
SpeechOnlySource ==
    \A k \in tasks :
        (Resumes(k) /\ k.kind = "tool" /\ k.pc = "decode")
        => playingSourcesRef' = {Source(nextStartTimeRef, k.dur)}

\* C17, as stated: speakAndLog logs exactly one assistant message per call;
\* suppressed, it requests no speech and schedules no audio; in every other
\* case it synthesizes the text and plays it after clearing the scheduled
\* sources, as the only scheduled source.
C17_SpeakOrSuppress ==
    [][SpeakSuppressible /\ SpeakAlways /\ SpeechPlays /\ SpeechOnlySource]_vars

\* C17, amended: in every other case it requests synthesis, and plays the
\* speech as the only scheduled source when the synthesis succeeds; when it
\* fails nothing is played and nothing is stopped.
C17_SpeakOrSuppressUnlessTtsFails ==
    [][SpeakSuppressible /\ SpeakAlways /\ SpeechPlaysIfSynthesized
         /\ SpeechOnlySource]_vars

\* webSearch's speech is the one scheduled source, and the speech of the
\* callEmergencyServices call that came while it played was suppressed
C17_Witness ==
    /\ received = <<"webSearch", "callEmergencyServices">>
    /\ Finished(2)
    /\ speechRequests = <<1>>
    /\ emergencyTriggers = <<2>>
    /\ Cardinality(playingSourcesRef) = 1
    /\ ~hasAIBeenInterruptedRef

\* caller c's requestLocation promise resolves in this step
Resolves(c) == callers[c].st # "resolved" /\ callers'[c].st = "resolved"

\* what a call resolves with, and the state it leaves: unsupported, success,
\* failure
ResolvesAsSpecified(c) ==
    \/ /\ ~hasGeolocation
       /\ callers[c].st # "waiting" /\ callers'[c].val = NULL
       /\ status' = "unsupported" /\ geoError'
       /\ issued' = issued /\ inflight' = {}
    \/ /\ hasGeolocation
       /\ callers[c].st = "waiting" /\ callers'[c].val \in Fixes
       /\ location' = callers'[c].val /\ status' = "granted"
    \/ /\ hasGeolocation
       /\ callers[c].st = "waiting" /\ callers'[c].val = NULL
       /\ location' = location /\ status' = "denied" /\ geoError'

\* C18: every requestLocation call resolves and never rejects: at once with
\* null and status unsupported, without a platform request, where geolocation
\* is missing; with the fix, stored, and status granted on success; with null
\* and status denied and an error message on failure or timeout.
C18_RequestAlwaysResolves ==
    /\ [][\A c \in Callers : Resolves(c) => ResolvesAsSpecified(c)]_vars
    /\ [](\A c \in Callers : callers[c].st \in {"idle", "waiting", "resolved"})
    /\ \A c \in Callers : (callers[c].st = "waiting") ~> (callers[c].st = "resolved")

\* one call resolved with null after a failure, a later one with the fix
C18_Witness ==
    /\ status = "granted"
    /\ \E c, d \in Callers :
          /\ callers[c].st = "resolved" /\ callers[c].val = location /\ location \in Fixes
          /\ callers[d].st = "resolved" /\ callers[d].val = NULL /\ callers[d].req # 0

\* idle/granted/denied -> pending -> granted or denied
StatusChain ==
    {<<"idle", "pending">>, <<"granted", "pending">>, <<"denied", "pending">>,
     <<"pending", "granted">>, <<"pending", "denied">>}
PendingOnlyInFlight == status = "pending" => inflight # {}

\* C19, as stated: the status changes only along idle/granted/denied ->
\* pending -> granted or denied, and is never pending when no platform
\* request is in flight.
C19_StatusChain ==
    /\ [][status' # status => <<status, status'>> \in StatusChain]_vars
    /\ []PendingOnlyInFlight

\* C19, amended: that holds where the platform has geolocation; where it has
\* none, the only change is idle -> unsupported and the status is never pending.
C19_StatusChainOrUnsupported ==
    /\ [][status' # status =>
              IF hasGeolocation THEN <<status, status'>> \in StatusChain
              ELSE <<status, status'>> = <<"idle", "unsupported">>]_vars
    /\ []PendingOnlyInFlight

\* a second request cycle entered pending from denied
C19_Witness ==
    /\ status = "pending"
    /\ issued = 2 /\ inflight = {2}
    /\ outcome[1] = NULL

\* C20: when getUserMedia rejects, enableWebcam leaves the camera inactive
\* with no stream handle and the error of the cause (permission denied for
\* NotAllowedError, device not found for NotFoundError, generic otherwise); a
\* later successful enableWebcam clears the error.
C20_FailureClassified ==
    [][/\ \A p \in pendingEnable, name \in ErrorNames :
             GetUserMediaReject(p, name)
             => /\ ~isEnabled' /\ stream' = NULL
                /\ name = "NotAllowedError" => webcamError' = "denied"
                /\ name = "NotFoundError" => webcamError' = "notfound"
                /\ name \notin {"NotAllowedError", "NotFoundError"}
                      => webcamError' = "generic"
       /\ \A p \in pendingEnable, torch \in BOOLEAN :
             GetUserMediaResolve(p, torch)
             => isEnabled' /\ stream' = p.id /\ webcamError' = "none"]_vars

\* the one acquisition attempted was refused for lack of permission
C20_Witness ==
    /\ acquired = 1 /\ pendingEnable = {}
    /\ ~isEnabled /\ stream = NULL
    /\ webcamError = "denied"

\* C21: stopSession leaves the orchestrator idle, the transport of the
\* installed session closed, the audio pipeline and contexts released and the
\* session handle cleared, and raises no error, whenever it is called: with
\* no session active, twice in a row, after a failed startSession.
C21_StopSessionSafe ==
    [][StopSession =>
          /\ ~isListening' /\ ~isConnecting' /\ ~isAssistantActive'
          /\ liveSessionRef' = NULL
          /\ liveSessionRef # NULL => sessions'[liveSessionRef].ws # "OPEN"
          /\ inputSourceRef # NULL => inputSourceRef \notin micPipeline'
          /\ audioContextRef # NULL => audioContextRef \in closedCtx'
          /\ ~CloseRejects(audioContextRef)]_vars

\* the transport of the installed session a fails or is closed by the peer
TransportLost(a) ==
    /\ a = liveSessionRef
    /\ sessions[a].ws = "OPEN" /\ sessions'[a].ws = "CLOSED"
    /\ ~StopSession

\* C22: a transport error or remote close in mid-session destroys the
\* session: the handle is cleared, the audio pipeline and contexts are
\* released, and no new connection is opened.
C22_TransportLossDestroysSession ==
    [][\A a \in 1..Len(sessions) :
          TransportLost(a)
          => /\ liveSessionRef' = NULL
             /\ a \notin micPipeline'
             /\ audioContextRef \in closedCtx'
             /\ Len(sessions') = Len(sessions)]_vars

\* The largest area among the boxes of objs, 0 for none
LargestArea(objs) ==
    IF objs = <<>> THEN 0
    ELSE CHOOSE a \in {Area(objs[k]) : k \in 1..Len(objs)} :
             \A k \in 1..Len(objs) : a >= Area(objs[k])

\* C23: after a successful cycle of the mounted visualizer the coverage ratio
\* is the largest box area among the result's detected objects (0 when there
\* are none), and the proximity alert is on exactly when that area exceeds
\* 0.6.
C23_CoverageIsLargestArea ==
    [][\A e \in 1..Len(eff), d \in SceneDescriptions, objs \in DetectedObjects :
          DetectSuccess(e, d, objs) /\ eff[e].inst = mountId
          => /\ coverageRatio' = LargestArea(objs)
             /\ (objs = <<>> => coverageRatio' = 0)
             /\ ProximityAlert' <=> LargestArea(objs) > 60]_vars

\* a result whose largest box covers 0.7 of the frame is on display, alert on
C23_Witness ==
    /\ mountId # 0 /\ boundingBoxes # <<>>
    /\ coverageRatio = 70 /\ ProximityAlert

\* An inbound audio payload's handler resumes after decodeAudioData
InboundAudioResumes(k) == k.kind = "audio" /\ k.pc = "decode" /\ Resumes(k)

\* C24: a segment scheduled from an inbound audio payload starts at the larger
\* of the scheduling clock and the audio clock's time, so not in the past and
\* not before the end of any source still scheduled on its context; the clock
\* then stands at the segment's end; and a source leaves the active set only
\* when it has ended or when playback is stopped as a whole.
C24_SegmentsInOrder ==
    [][/\ \A k \in tasks :
            InboundAudioResumes(k)
            => \E s \in playingSourcesRef' :
                  /\ playingSourcesRef' = playingSourcesRef \cup {s}
                  /\ s \notin playingSourcesRef
                  /\ s.dur = k.dur
                  /\ s.start = Max(nextStartTimeRef, currentTime)
                  /\ s.start >= currentTime
                  /\ s.start >= nextStartTimeRef
                  /\ nextStartTimeRef' = s.start + s.dur
                  /\ \A t \in playingSourcesRef :
                        t.ctx = s.ctx => s.start >= t.start + t.dur
       /\ \A s \in playingSourcesRef \ playingSourcesRef' :
            \/ currentTime >= s.start + s.dur
            \/ playingSourcesRef' = {}]_vars

\* two segments are scheduled back to back while the audio clock has advanced
C24_Witness ==
    /\ currentTime > 0
    /\ \E s, t \in playingSourcesRef :
          /\ s.ctx = t.ctx
          /\ s.start = t.start + t.dur
          /\ s.start >= currentTime

\* C25: when an interruption signal is handled while the output transcript
\* buffer is non-empty, the log grows by exactly one assistant entry holding
\* the buffer's text marked as interrupted, the output buffer ends empty and
\* the input buffer is unchanged.
C25_InterruptionCommitsOutput ==
    [][(/\ inbound' = inbound + 1
        /\ lastInbound' = ServerContent(FALSE, FALSE, TRUE, FALSE, 0)
        /\ currentOutputTranscription # <<>>)
       => /\ messages' = messages \o
                <<[type |-> "ai", text |-> Interrupted(currentOutputTranscription)]>>
          /\ currentOutputTranscription' = <<>>
          /\ currentInputTranscription' = currentInputTranscription]_vars

\* C26: stopSpeaking leaves no scheduled source and the interrupted flag set,
\* leaves the sessions and their transports, the session handle, isListening,
\* the log and both transcript buffers as they were, and leaves the scheduling
\* clock no later than the audio clock, so that the next inbound segment starts
\* at once.
C26_StopSpeakingOnlyPlayback ==
    [][StopSpeaking
       => /\ playingSourcesRef' = {}
          /\ hasAIBeenInterruptedRef'
          /\ UNCHANGED <<sessions, liveSessionRef, isListening, messages,
                         currentInputTranscription, currentOutputTranscription>>
          /\ nextStartTimeRef' <= currentTime']_vars

\* C27: a detection failure of the mounted visualizer clears its boxes only
\* when it is a quota failure; after a timeout or any other failure the boxes
\* and the result last reported through onAnalysisUpdate are what they were.
C27_OnlyQuotaClearsResult ==
    [][\A e \in 1..Len(eff), kind \in FailureKinds :
          DetectFailure(e, kind) /\ eff[e].inst = mountId
          => IF kind = "quota"
             THEN boundingBoxes' = <<>>
             ELSE /\ boundingBoxes' = boundingBoxes
                  /\ analysisUpdate'.result = analysisUpdate.result]_vars

\* Closure e went through the offline branch: the error is reported, no frame
\* is being captured and no detection request is out that was not before, and
\* its timer is set to 5 s
OfflineCycle(e) ==
    /\ analysisUpdate'.error = "offline"
    /\ eff'[e].pc = "idle"
    /\ eff'[e].timeoutId = 5
    /\ \A x \in 1..Len(eff) : eff'[x].pc = eff[x].pc

\* C28: a cycle that starts while the network is unreachable reports the
\* offline error, starts no capture and no detection request and sets the next
\* cycle 5 s later; a cycle whose capture yields no frame reports nothing,
\* sends no detection request and sets the next cycle 1 s later.
C28_OfflineAndNoFrameCycles ==
    [][/\ \A e \in 1..Len(eff) : TimerFire(e, FALSE) => OfflineCycle(e)
       /\ (Mount(FALSE) \/ ParentRerender(FALSE) \/ DetectionOn(FALSE))
             => OfflineCycle(Len(eff'))
       /\ \A e \in 1..Len(eff) :
             CaptureDone(e, FALSE)
             => /\ analysisUpdate' = analysisUpdate
                /\ eff'[e].pc = "idle"
                /\ eff'[e].timeoutId = 1
                /\ \A x \in 1..Len(eff) : x # e => eff'[x].pc = eff[x].pc]_vars

\* the offline error is the last report and a cycle is due in 5 s, after an
\* earlier cycle had shown a result
C28_Witness ==
    /\ analysisUpdate.error = "offline"
    /\ boundingBoxes # <<>>
    /\ \E e \in 1..Len(eff) : eff[e].pc = "idle" /\ eff[e].timeoutId = 5

\* processToolCall returns for call id in this step
Finishes(id) == Finished(id)' /\ ~Finished(id)
\* the responses this step writes for call id
NewResponses(id) == {i \in Responses(id)' : i > Len(sent)}
\* call id + 1 belongs to the same envelope as call id, which has not begun
FollowedInMessage(id) ==
    \/ id > Len(received) /\ id < Len(received')
    \/ \E k \in ToolTasks : \E i \in 2..(Len(k.calls) - 1) : k.calls[i] = id
\* this step writes the log entry processToolCall starts call id with
StartsCall(id) ==
    \E p \in (Len(messages) + 1)..Len(messages') :
        messages'[p] = [type |-> "tool_call", text |-> <<"Using", received'[id]>>]

\* C29, as stated: a call with an unknown name has, when processToolCall
\* returns for it, one response with the unknown-tool result, and the call
\* after it in the same envelope is started.
C29_UnknownToolAnswered ==
    [][\A id \in 1..Len(received') :
          (received'[id] = "otherTool" /\ Finishes(id))
          => /\ \E i \in NewResponses(id) :
                   sent'[i].res = "unknown" /\ sent'[i].name = "otherTool"
             /\ FollowedInMessage(id) => StartsCall(id + 1)]_vars

\* C29, amended: a call with an unknown name is started and returns in one
\* step; it has exactly one response, with the unknown-tool result, if a
\* session handle is installed and its transport open at that moment, and none
\* otherwise; in both cases the call after it in the same envelope is started
\* in the same step, and a call that returns in that step is answered under
\* the same condition.
C29_UnknownToolAnsweredIfOpen ==
    [][\A id \in 1..Len(received') :
          (received'[id] = "otherTool" /\ Finishes(id))
          => /\ StartsCall(id)
             /\ IF TransportReady
                THEN /\ Cardinality(NewResponses(id)) = 1
                     /\ \A i \in NewResponses(id) :
                           sent'[i].res = "unknown" /\ sent'[i].name = "otherTool"
                ELSE NewResponses(id) = {}
             /\ FollowedInMessage(id)
                => /\ StartsCall(id + 1)
                   /\ Finishes(id + 1)
                      => Cardinality(NewResponses(id + 1))
                            = IF TransportReady THEN 1 ELSE 0]_vars

\* an unknown tool was answered as unknown and the call after it in the same
\* envelope was executed and answered too
C29_Witness ==
    /\ Len(received) = 2
    /\ received[1] = "otherTool"
    /\ \E i \in Responses(1) : sent[i].res = "unknown"
    /\ Finished(2) /\ Responses(2) # {}

\* processToolCall of call id is suspended at one of the stages pcs
Suspended(id, pcs) == \E k \in ToolTasks : Head(k.calls) = id /\ k.pc \in pcs
\* call id is past its frame: announcing or awaiting the scene description
Describing(id) == Suspended(id, {"speech", "decode", "analyze"})
\* processToolCall returns for call id without a scene description
FinishesWithoutFrame(id) == Finishes(id) /\ ~Suspended(id, {"analyze"})

IsPrefix(log, log2) ==
    Len(log) <= Len(log2) /\ \A i \in 1..Len(log) : log2[i] = log[i]

\* C31: every step other than clearMessages keeps the entries of the message
\* log as they are and in place and at most adds entries at its end;
\* clearMessages leaves it empty.
C31_LogAppendOnly ==
    [][IF ClearMessages THEN messages' = <<>> ELSE IsPrefix(messages, messages')]_vars

\* the log was cleared after the first call's entries and the second call's
\* entries were appended to the empty log
C31_Witness ==
    /\ Len(received) = 2
    /\ Len(messages) >= 2
    /\ messages[1] = [type |-> "tool_call", text |-> <<"Using", received[2]>>]
    /\ received[1] # received[2]

\* C32: toggleTorch without a stream or without the torch capability changes
\* nothing; when applyConstraints succeeds the torch-on flag becomes the
\* opposite of what it was; when it fails the capability and the torch-on flag
\* are false and no further applyConstraints call is made.
C32_ToggleTorch ==
    [][/\ (stream = NULL \/ ~hasTorch) /\ (ToggleTorch \/ ToggleTorchNoop)
             => UNCHANGED vars
       /\ \A t \in pendingTorch :
             /\ ApplyConstraintsResolve(t) => isTorchOn' = ~isTorchOn
             /\ ApplyConstraintsReject(t)
                => /\ ~hasTorch' /\ ~isTorchOn'
                   /\ torchCalls' = torchCalls
                   /\ pendingTorch' \subseteq pendingTorch]_vars

\* the state disableWebcam aims at
CameraOff == stream = NULL /\ ~isEnabled /\ ~hasTorch /\ ~isTorchOn

\* C33: enableWebcam(mode) on a camera enabled with that mode and a live
\* stream changes no state and requests no stream; disableWebcam always leaves
\* stream null, the camera inactive and both torch flags false, and called on
\* the state a disableWebcam left it changes no state.
C33_CaptureIdempotent ==
    [][/\ \A mode \in FacingModes :
             (/\ isEnabled /\ stream # NULL /\ facingMode = mode /\ stream \in liveStreams
              /\ EnableWebcam(mode) \/ EnableWebcamNoop(mode))
             => UNCHANGED vars
       /\ DisableWebcam => CameraOff'
       /\ (DisableWebcam /\ CameraOff) => UNCHANGED vars]_vars

\* the camera was disabled after a stream was acquired and its torch toggled
C33_Witness ==
    /\ CameraOff
    /\ acquired > 0 /\ torchCalls > 0
    /\ liveStreams = {} /\ pendingEnable = {}

\* C37: in every state torch-on implies torch-capable and torch-capable
\* implies an enabled camera with a stream; a failed acquisition leaves both
\* torch flags false and a successful one leaves torch-on false.
C37_TorchFlagsConsistent ==
    [][/\ isTorchOn' => hasTorch'
       /\ hasTorch' => (isEnabled' /\ stream' # NULL)
       /\ \A p \in pendingEnable :
             /\ (\E name \in ErrorNames : GetUserMediaReject(p, name))
                   => (~hasTorch' /\ ~isTorchOn')
             /\ (\E torch \in BOOLEAN : GetUserMediaResolve(p, torch))
                   => ~isTorchOn']_vars

\* C34: a frame is written to a transport only while the visual pane is open,
\* the camera enabled and a session listening; at most one forwarding
\* interval is active; no frame is written through a cleared session handle
\* or to a transport that is not open.
C34_FramesOnlyWhileStreaming ==
    [][/\ Len(videoSent') > Len(videoSent)
             => /\ isVisualsOpen /\ isEnabled /\ isListening
                /\ TransportReady
       /\ Cardinality(intervals') <= 1]_vars

\* the attempts whose transport is open
OpenTransports == {a \in 1..Len(sessions) : sessions[a].ws = "OPEN"}

\* C35: at most one dialogue transport is open and at most one microphone
\* pipeline is connected at any time.
C35_OneTransportOnePipeline ==
    /\ Cardinality(OpenTransports) <= 1
    /\ Cardinality(micPipeline) <= 1

\* startSession is called after a stopSession, with no session handle installed
StartsAfterStop ==
    /\ StartSession
    /\ Len(sessions) >= 1 /\ closedCtx # {} /\ liveSessionRef = NULL

\* C36: a startSession that follows a stopSession begins with no scheduled
\* playback source, the interrupted flag false, the scheduling clock not ahead
\* of the new context's time and both transcript buffers empty, so that
\* speakAndLog's suppression test is false.
C36_CleanSessionRecord ==
    [][StartsAfterStop
       => /\ playingSourcesRef' = {}
          /\ ~hasAIBeenInterruptedRef'
          /\ nextStartTimeRef' <= currentTime'
          /\ currentInputTranscription' = <<>>
          /\ currentOutputTranscription' = <<>>
          /\ ~Busy']_vars


\* how many of the turn's deltas are this phrase
Spoken(phrase) ==
    Cardinality({i \in 1..Len(currentInputTranscription) :
                     currentInputTranscription[i] = phrase})

\* how many actions the effect called for this phrase in the turn
Triggered(phrase) ==
    Cardinality({i \in 1..Len(commandCalls) : commandCalls[i].phrase = phrase})

\* C38: a command phrase spoken once in a user turn triggers its action at
\* most once in that turn, however many later deltas the transcription
\* receives before turn-complete clears it.
C38_CommandOncePerTurn ==
    \A phrase \in Words : Spoken(phrase) = 1 => Triggered(phrase) <= 1
====
